---- MODULE Spec2Model ----
(***************************************************************************)
(* A model of llm_helpers: the LLMRateLimiter admission controller, the    *)
(* handlers' send_request, and ProcessorCore's single-request pipeline and *)
(* batch orchestration, run by one asyncio event loop.                     *)
(*                                                                         *)
(* The event loop is single-threaded: exactly one task runs at a time, it  *)
(* runs until it suspends at an await that cannot complete immediately,    *)
(* and woken tasks are resumed in the order in which they were woken (the  *)
(* loop's ready queue is FIFO).  `running` is the task that holds the      *)
(* thread; `ready` is the loop's ready queue.                              *)
(***************************************************************************)
EXTENDS Integers, Sequences, FiniteSets, TLC

\* ---------------------------------------------------------------- bounds
NTasks == 3
MaxSessions == 4
MaxCapacity == 2
NFairTasks == 2
MaxFaults == 3
MaxBatchRetries == 2
NItems == 2
NChunks == 3
MaxLen == 4
MaxCleanRetries == 3
MaxClock == 1
MaxReuseIds == 3
NReqs == 3
MaxV2Faults == 9
MaxLongFaults == 6
MaxNamedFaults == 4

\* ------------------------------------------------------ program constants
V2MaxRetries == 3
CleanMaxRetries == 2
DefaultCapacity == 5
DefaultMaxRetries == 5

Task == 1..NTasks

VARIABLES
    max_concurrent_sessions,  \* LLMRateLimiter.max_concurrent_sessions
    semValue,                 \* LLMRateLimiter.semaphore._value
    semWaiters,               \* LLMRateLimiter.semaphore._waiters
    waiting_queue,            \* LLMRateLimiter.waiting_queue: <<session_id, task awaiting the future>>
    active_sessions,          \* LLMRateLimiter.active_sessions (its keys)
    start_time,               \* LLMRateLimiter.active_sessions[id]['start_time'], for each key
    ready,                    \* the event loop's ready queue (tasks to resume, FIFO)
    running,                  \* the set holding the task that is executing; empty between tasks
    pc,                       \* where each task is suspended / what it resumes to
    cur,                      \* the session_id argument of the task's acquire_session call in progress
    held,                     \* the ids whose acquire_session has returned to the task, not yet released
    nextId,                   \* the next fresh session id (uuid4 never repeats)
    at,                       \* pipeline: where each task is in process_v2 and its caller
    kind,                     \* pipeline: the process_type of the send in progress ("request" or "fix")
    v2retries,                \* process_v2: retries
    retry_count,              \* _clean_json_response: retry_count of the innermost call
    outcome,                  \* what the transport call gave: an error or the class of the raw text
    result,                   \* what process_v2 returned to its caller
    v2error,                  \* process_v2: the exception e named by the error it raised
    faults,                   \* how many more transport outcomes other than "ok" the environment may produce
    max_retries,              \* parallel_batch_process: config.get("max_retries", 5)
    retries,                  \* process_batch_with_retry: retries
    ret,                      \* process_batch_with_retry: its return value (order, response)
    batchState,               \* parallel_batch_process: "gathering", "returned" or "raised"
    batchResult,              \* parallel_batch_process: ordered_responses
    doneOrder,                \* history: the batch's tasks in the order they ended
    sequential_config,        \* sequential_batch_process: the carry map, input field -> result key
    chunkIdx,                 \* sequential_batch_process: the index of the chunk the loop is at
    response,                 \* sequential_batch_process: response
    sent,                     \* history: the components passed to process_v2, chunk by chunk
    results,                  \* history: the values process_v2 returned, chunk by chunk
    startedIdx,               \* history: the chunks for which process_v2 was called, in call order
    requested,                \* history: how many elements the consumer has asked the generator for
    raw_response,             \* _clean_json_response: the text the pending call is given (a sequence of tokens)
    clean_max_retries,        \* _clean_json_response: max_retries
    clean_retry_count,        \* _clean_json_response: retry_count of the frame control is in
    cleanState,               \* _clean_json_response: "call", "fixing", "returned", "raising" or "idle"
    cleanValue,               \* _clean_json_response: the value returned to the caller
    cleanError,               \* _clean_json_response: the exception that is propagating
    parseAttempts,            \* history: how many calls reached json.loads
    fixCalls,                 \* history: how many process(__fix_json__) calls were made
    allMalformed,             \* history: every text examined so far held the begin marker and failed to parse
    admitted,                 \* history: ids in the order they were recorded in active_sessions
    queued,                   \* history: ids in the order they were appended to waiting_queue
    now,                      \* time.time(): the clock the limiter stamps its entries from
    status,                   \* what the last call of get_queue_status returned
    lastCall,                 \* history: the last acquire or release call, with whether its id was active when called
    capacity,                 \* per handler: the max_concurrent_sessions it was constructed with
    limiterActive,            \* per limiter: the requests recorded in its active_sessions
    reqAt,                    \* per request: where its send_request is
    reqHandler,               \* per request: the handler whose send_request was called
    llm_handlers,             \* ProcessorCore.llm_handlers: name -> handler object
    llm_handler,              \* ProcessorCore.llm_handler
    coreState,                \* ProcessorCore(): "unbuilt", "ready", or "failed" when __init__ raised
    regOut,                   \* what the last ProcessorCore call returned or raised
    sendCount,                \* history: per task, the transport calls started since process_v2 was called
    invocations,              \* history: per batch item, how many times it called process_v2
    delays,                   \* history: per batch item, the arguments of its asyncio.sleep calls, in order
    ctorArgs,                 \* history: the llm_handler and llm_handlers arguments ProcessorCore was called with
    handlerArg,               \* per task: the handler argument of its process_v2 call
    via                       \* per task: the registry name process() looked up for the send in progress

limiterVars == <<max_concurrent_sessions, semValue, semWaiters, waiting_queue,
                 active_sessions, start_time>>
loopVars == <<ready, running, pc>>
coreVars == <<limiterVars, loopVars, cur, held>>
obsVars == <<admitted, queued>>
v2Vars == <<at, kind, v2retries, retry_count, outcome, result, v2error, faults>>
batchVars == <<max_retries, retries, ret, batchState, batchResult, doneOrder>>
seqVars == <<sequential_config, chunkIdx, response, sent, results, startedIdx,
             requested>>
cleanVars == <<raw_response, clean_max_retries, clean_retry_count, cleanState,
               cleanValue, cleanError, parseAttempts, fixCalls, allMalformed>>
pipeVars == <<v2Vars, batchVars, seqVars, cleanVars>>
adminVars == <<now, status, lastCall>>
handlerVars == <<capacity, limiterActive, reqAt, reqHandler>>
registryVars == <<llm_handlers, llm_handler, coreState, regOut>>
traceVars == <<sendCount, invocations, delays, ctorArgs, handlerArg, via>>
extVars == <<adminVars, handlerVars, registryVars, traceVars>>
vars == <<coreVars, nextId, obsVars, pipeVars, extVars>>

\* ------------------------------------------------------------ helpers
Range(s) == {s[i] : i \in DOMAIN s}

Before(s, x, y) ==
    /\ x \in Range(s)
    /\ y \in Range(s) => (CHOOSE i \in DOMAIN s : s[i] = x)
                            < (CHOOSE i \in DOMAIN s : s[i] = y)

RemoveWaiter(ws, t) == SelectSeq(ws, LAMBDA w : w.task # t)

\* ----------------------------------------------------- asyncio.Semaphore
SemLocked_NeverBlocks == FALSE

\* Semaphore.locked(), which decides whether `await self.semaphore.acquire()`
\* suspends: no permit, or somebody is already waiting for one.
SemLocked == semValue = 0 \/ Len(semWaiters) > 0

\* Semaphore._wake_up_next(): hand the permit to the first waiter whose
\* future is not done yet.  Returns <<value, waiters, tasks made ready>>.
WakeUpNext(value, waiters) ==
    LET idx == {i \in DOMAIN waiters : ~waiters[i].done} IN
    IF idx = {} THEN <<value, waiters, <<>>>>
    ELSE LET i == CHOOSE j \in idx : \A k \in idx : j <= k IN
         <<value - 1,
           [waiters EXCEPT ![i].done = TRUE],
           <<waiters[i].task>>>>

\* ------------------------------------------------------- LLMRateLimiter
\* The operators of this section say what a limiter call does to the limiter,
\* to the event loop and to the caller's view of its sessions (coreVars).
NotifyNext_All(q) ==
    IF q # <<>> THEN <<<<>>, [i \in DOMAIN q |-> q[i][2]]>> ELSE <<q, <<>>>>

NotifyNext_Newest(q) ==
    IF q # <<>> THEN <<SubSeq(q, 1, Len(q) - 1), <<q[Len(q)][2]>>>> ELSE <<q, <<>>>>

NotifyNext_NoSetResult(q) ==
    IF q # <<>> THEN <<Tail(q), <<>>>> ELSE <<q, <<>>>>

\* Lines 73-77: pop the oldest ticket and resolve its future.  Returns
\* <<the queue left, the tasks whose future was resolved>>.
NotifyNext(q) ==
    IF q # <<>> THEN <<Tail(q), <<Head(q)[2]>>>> ELSE <<q, <<>>>>

\* Lines 50-53: self.active_sessions[session_id] = {'start_time': time.time(),
\* 'status': 'active'}, as a map over the keys `keys`.
Stamp(times, keys, s, time) ==
    [x \in keys |-> IF x = s THEN time ELSE times[x]]

\* `await self.semaphore.acquire()` of line 46 followed, when it does not
\* suspend, by the recording of lines 49-54.
SemaphoreAcquire(t, s) ==
    IF ~SemLocked
    THEN /\ semValue' = semValue - 1
         /\ active_sessions' = active_sessions \cup {s}
         /\ start_time' = Stamp(start_time, active_sessions \cup {s}, s, now)
         /\ held' = [held EXCEPT ![t] = @ \cup {s}]
         /\ pc' = [pc EXCEPT ![t] = "run"]
         /\ running' = {t}
         /\ UNCHANGED semWaiters
    ELSE /\ semWaiters' = Append(semWaiters, [task |-> t, done |-> FALSE])
         /\ pc' = [pc EXCEPT ![t] = "waitSem"]
         /\ running' = {}
         /\ UNCHANGED <<semValue, active_sessions, start_time, held>>

AtCapacity_OffByOne == Cardinality(active_sessions) > max_concurrent_sessions

\* Line 37: len(self.active_sessions) >= self.max_concurrent_sessions.
AtCapacity == Cardinality(active_sessions) >= max_concurrent_sessions

AlreadyActive_Never(s) == FALSE

\* Line 32: session_id in self.active_sessions.
AlreadyActive(s) == s \in active_sessions

\* acquire_session(session_id), from the call to its return or first suspension.
AcquireSession(t, s) ==
    /\ running = {t}
    /\ pc[t] = "run"
    /\ cur' = [cur EXCEPT ![t] = s]
    /\ IF AlreadyActive(s)
       THEN \* lines 32-34: warning, return; the caller takes the id for its own
            /\ held' = [held EXCEPT ![t] = @ \cup {s}]
            /\ UNCHANGED <<limiterVars, loopVars>>
       ELSE IF AtCapacity
       THEN \* lines 37-43: queue a future and wait for it
            /\ waiting_queue' = Append(waiting_queue, <<s, t>>)
            /\ pc' = [pc EXCEPT ![t] = "waitFut"]
            /\ running' = {}
            /\ UNCHANGED <<max_concurrent_sessions, semValue, semWaiters,
                           active_sessions, start_time, ready, held>>
       ELSE \* lines 46-54
            /\ SemaphoreAcquire(t, s)
            /\ UNCHANGED <<max_concurrent_sessions, waiting_queue, ready>>

\* The loop resumes a task whose queued future was resolved: line 43 returns,
\* lines 46-54 follow.
ResumeAfterFuture(t) ==
    /\ running = {}
    /\ ready # <<>> /\ Head(ready) = t
    /\ pc[t] = "futReady"
    /\ ready' = Tail(ready)
    /\ SemaphoreAcquire(t, cur[t])
    /\ UNCHANGED <<max_concurrent_sessions, waiting_queue, cur>>

\* The loop resumes a task that the semaphore handed a permit: the tail of
\* Semaphore.acquire (remove the waiter, pass on a spare permit), then
\* lines 49-54.
ResumeAfterSemaphore(t) ==
    /\ running = {}
    /\ ready # <<>> /\ Head(ready) = t
    /\ pc[t] = "semReady"
    /\ LET w == WakeUpNext(semValue, RemoveWaiter(semWaiters, t)) IN
       IF semValue > 0
       THEN /\ semValue' = w[1]
            /\ semWaiters' = w[2]
            /\ ready' = Tail(ready) \o w[3]
            /\ pc' = [p \in Task |->
                        IF p = t THEN "run"
                        ELSE IF p \in Range(w[3]) THEN "semReady" ELSE pc[p]]
       ELSE /\ semValue' = semValue
            /\ semWaiters' = RemoveWaiter(semWaiters, t)
            /\ ready' = Tail(ready)
            /\ pc' = [pc EXCEPT ![t] = "run"]
    /\ active_sessions' = active_sessions \cup {cur[t]}
    /\ start_time' = Stamp(start_time, active_sessions \cup {cur[t]}, cur[t], now)
    /\ held' = [held EXCEPT ![t] = @ \cup {cur[t]}]
    /\ running' = {t}
    /\ UNCHANGED <<max_concurrent_sessions, waiting_queue, cur>>

UnknownSession_Never(s) == FALSE

\* Line 64: session_id not in self.active_sessions.
UnknownSession(s) == s \notin active_sessions

\* release_session(session_id): lines 63-77, never suspends.
ReleaseSession(t, s) ==
    /\ running = {t}
    /\ pc[t] = "run"
    /\ held' = [held EXCEPT ![t] = @ \ {s}]
    /\ IF UnknownSession(s)
       THEN \* lines 64-66: warning, return
            UNCHANGED <<limiterVars, loopVars>>
       ELSE LET w == WakeUpNext(semValue + 1, semWaiters)
                n == NotifyNext(waiting_queue)
            IN
            /\ active_sessions' = active_sessions \ {s}
            /\ start_time' = [x \in active_sessions \ {s} |-> start_time[x]]
            /\ semValue' = w[1]
            /\ semWaiters' = w[2]
            /\ waiting_queue' = n[1]
            /\ ready' = ready \o w[3] \o n[2]
            /\ pc' = [p \in Task |->
                        IF p \in Range(w[3]) THEN "semReady"
                        ELSE IF p \in Range(n[2]) THEN "futReady"
                        ELSE pc[p]]
            /\ UNCHANGED <<max_concurrent_sessions, running>>
    /\ UNCHANGED cur

GetQueueStatus_CountsTickets ==
    [active_sessions |-> Cardinality(active_sessions) + Len(waiting_queue),
     waiting_sessions |-> Len(waiting_queue),
     max_concurrent_sessions |-> max_concurrent_sessions,
     active_session_ids |-> active_sessions,
     waiting_session_ids |-> [i \in DOMAIN waiting_queue |-> waiting_queue[i][1]]]

\* get_queue_status(): lines 99-106, never suspends.  The keys of a dict are
\* distinct, so the list of line 104 is given as the set of its elements.
GetQueueStatus ==
    [active_sessions |-> Cardinality(active_sessions),
     waiting_sessions |-> Len(waiting_queue),
     max_concurrent_sessions |-> max_concurrent_sessions,
     active_session_ids |-> active_sessions,
     waiting_session_ids |-> [i \in DOMAIN waiting_queue |-> waiting_queue[i][1]]]

\* --------------------------------------------------------- event loop
\* The loop resumes a task in its own code, after an await of something
\* that is not the limiter.
RunReady(t) ==
    /\ running = {}
    /\ ready # <<>> /\ Head(ready) = t
    /\ pc[t] = "ready"
    /\ ready' = Tail(ready)
    /\ running' = {t}
    /\ pc' = [pc EXCEPT ![t] = "run"]
    /\ UNCHANGED <<limiterVars, cur, held>>

\* The running task awaits something that is not the limiter (the transport
\* call, a sleep): it is suspended until that completes.
Suspend(t) ==
    /\ running = {t}
    /\ pc[t] = "run"
    /\ pc' = [pc EXCEPT ![t] = "io"]
    /\ running' = {}
    /\ UNCHANGED <<limiterVars, ready, cur, held>>

\* What the task awaited completes: the loop schedules the task.
Complete(t) ==
    /\ pc[t] = "io"
    /\ pc' = [pc EXCEPT ![t] = "ready"]
    /\ ready' = Append(ready, t)
    /\ UNCHANGED <<limiterVars, running, cur, held>>

\* The running task ends.
Finish(t) ==
    /\ running = {t}
    /\ pc[t] = "run"
    /\ pc' = [pc EXCEPT ![t] = "done"]
    /\ running' = {}
    /\ UNCHANGED <<limiterVars, ready, cur, held>>

\* LLMRateLimiter.__init__, lines 17-21, and an event loop whose tasks
\* 1..n wait for the event that makes them call the limiter.
InitCore(n) ==
    /\ max_concurrent_sessions \in 1..MaxCapacity
    /\ semValue = max_concurrent_sessions
    /\ semWaiters = <<>>
    /\ waiting_queue = <<>>
    /\ active_sessions = {}
    /\ start_time = [x \in {} |-> 0]
    /\ ready = <<>>
    /\ running = {}
    /\ pc = [t \in Task |-> IF t <= n THEN "io" ELSE "done"]
    /\ cur = [t \in Task |-> 0]
    /\ held = [t \in Task |-> {}]

\* ------------------------------- the limiter under arbitrary client tasks
\* The observer: the order in which ids enter waiting_queue and
\* active_sessions (every step adds at most one id to each).
Track ==
    /\ admitted' = admitted \o
           (IF active_sessions' \ active_sessions = {} THEN <<>>
            ELSE <<CHOOSE x \in active_sessions' \ active_sessions : TRUE>>)
    /\ queued' = IF Len(waiting_queue') > Len(waiting_queue)
                 THEN Append(queued, waiting_queue'[Len(waiting_queue')][1])
                 ELSE queued

\* The client calls acquire_session with a fresh id.
ClientAcquire(t) ==
    /\ nextId <= MaxSessions
    /\ AcquireSession(t, nextId)
    /\ nextId' = nextId + 1
    /\ Track
    /\ UNCHANGED <<pipeVars, extVars>>

ClientResumeAfterFuture(t) ==
    ResumeAfterFuture(t) /\ Track /\ UNCHANGED <<nextId, pipeVars, extVars>>

ClientResumeAfterSemaphore(t) ==
    ResumeAfterSemaphore(t) /\ Track /\ UNCHANGED <<nextId, pipeVars, extVars>>

\* The client releases an id whose acquire has returned to it.
ClientRelease(t) ==
    /\ \E s \in held[t] : ReleaseSession(t, s)
    /\ Track
    /\ UNCHANGED <<nextId, pipeVars, extVars>>

\* The client awaits the call it acquired the slot for.
ClientAwait(t) ==
    /\ held[t] # {}
    /\ Suspend(t)
    /\ UNCHANGED <<nextId, obsVars, pipeVars, extVars>>

ClientAwaitDone(t) ==
    Complete(t) /\ UNCHANGED <<nextId, obsVars, pipeVars, extVars>>

ClientRun(t) ==
    RunReady(t) /\ UNCHANGED <<nextId, obsVars, pipeVars, extVars>>

\* The client task ends, having released what it acquired.
ClientFinish(t) ==
    /\ held[t] = {}
    /\ Finish(t)
    /\ UNCHANGED <<nextId, obsVars, pipeVars, extVars>>

InitObs ==
    /\ nextId = 1
    /\ admitted = <<>>
    /\ queued = <<>>

\* Nobody has asked for the status.
NoStatus ==
    [active_sessions |-> -1,
     waiting_sessions |-> -1,
     max_concurrent_sessions |-> -1,
     active_session_ids |-> {},
     waiting_session_ids |-> <<>>]

InitAdminIdle ==
    /\ now = 0
    /\ status = NoStatus
    /\ lastCall = <<"none", 0, FALSE>>

\* ------------------------------------------------ handlers and limiters
\* The handlers of the program: one AnthropicLLMHandler, one OpenAILLMHandler.
Handler == {"anthropic", "openai"}

\* The limiters: the one each handler's constructor makes for it
\* (self.rate_limiter), named after the handler, and the module's
\* rate_limiter (rate_limiter.py line 128).
Limiter == Handler \cup {"global"}

Req == 1..NReqs

\* No request has been sent through a handler.
InitHandlersIdle ==
    /\ capacity = [h \in Handler |-> 1]
    /\ limiterActive = [l \in Limiter |-> {}]
    /\ reqAt = [r \in Req |-> "idle"]
    /\ reqHandler = [r \in Req |-> "anthropic"]

\* ------------------------------------------------------- handler registry
HandlerName == {"default", "a", "b"}

\* No ProcessorCore has been constructed.
InitRegistryIdle ==
    /\ llm_handlers = [n \in {} |-> "h1"]
    /\ llm_handler = "None"
    /\ coreState = "unbuilt"
    /\ regOut = [op |-> "none", name |-> "none", ret |-> "none", error |-> "none",
                names |-> {}, sends |-> 0]

\* No process_v2 call is being observed.
InitTraceIdle ==
    /\ sendCount = [t \in Task |-> 0]
    /\ invocations = [t \in Task |-> 0]
    /\ delays = [t \in Task |-> <<>>]
    /\ ctorArgs = [llm_handler |-> "None", llm_handlers |-> <<>>]
    /\ handlerArg = [t \in Task |-> "None"]
    /\ via = [t \in Task |-> "none"]

InitExt ==
    /\ InitAdminIdle
    /\ InitHandlersIdle
    /\ InitRegistryIdle
    /\ InitTraceIdle

\* No batch is running.
InitBatchIdle ==
    /\ max_retries = 1
    /\ retries = [t \in Task |-> 0]
    /\ ret = [t \in Task |-> <<>>]
    /\ batchState = "idle"
    /\ batchResult = <<>>
    /\ doneOrder = <<>>

\* No sequential chain is running.
InitSeqIdle ==
    /\ sequential_config = <<>>
    /\ chunkIdx = 0
    /\ response = <<>>
    /\ sent = <<>>
    /\ results = <<>>
    /\ startedIdx = <<>>
    /\ requested = 0

\* No direct call of the extractor is in progress.
NoError == [kind |-> "none", attempts |-> 0]

InitCleanIdle ==
    /\ raw_response = <<>>
    /\ clean_max_retries = 0
    /\ clean_retry_count = 0
    /\ cleanState = "idle"
    /\ cleanValue = "none"
    /\ cleanError = NoError
    /\ parseAttempts = 0
    /\ fixCalls = 0
    /\ allMalformed = FALSE

\* No pipeline is running.
InitPipeIdle ==
    /\ at = [t \in Task |-> "idle"]
    /\ kind = [t \in Task |-> "request"]
    /\ v2retries = [t \in Task |-> 0]
    /\ retry_count = [t \in Task |-> 0]
    /\ outcome = [t \in Task |-> "none"]
    /\ result = [t \in Task |-> 0]
    /\ v2error = [t \in Task |-> NoError]
    /\ faults = 0
    /\ InitBatchIdle
    /\ InitSeqIdle
    /\ InitCleanIdle

Init ==
    /\ InitCore(NTasks)
    /\ InitObs
    /\ InitExt
    /\ InitPipeIdle

ClientStep(t) ==
    ClientAcquire(t) \/ ClientRelease(t) \/ ClientAwait(t) \/ ClientFinish(t)

Next ==
    \E t \in Task :
        \/ ClientRun(t)
        \/ ClientResumeAfterFuture(t)
        \/ ClientResumeAfterSemaphore(t)
        \/ ClientAcquire(t)
        \/ ClientRelease(t)
        \/ ClientAwait(t)
        \/ ClientAwaitDone(t)
        \/ ClientFinish(t)

Spec == Init /\ [][Next]_vars

\* The event loop runs every task that is ready, and a running coroutine
\* runs on to its next await or its end.
Fairness ==
    \A t \in Task :
        /\ WF_vars(ClientRun(t))
        /\ WF_vars(ClientResumeAfterFuture(t))
        /\ WF_vars(ClientResumeAfterSemaphore(t))
        /\ WF_vars(ClientStep(t))

FairInit ==
    /\ InitCore(NFairTasks)
    /\ InitObs
    /\ InitExt
    /\ InitPipeIdle

FairSpec == FairInit /\ [][Next]_vars /\ Fairness

\* ------------------- the limiter under clients that reuse session ids
\* As above, and a client may also pass acquire_session an id that is
\* active (its own or another task's) and so release an id that another
\* task has released; the clock advances between calls.
AdminAcquire(t) ==
    /\ nextId <= MaxReuseIds
    /\ AcquireSession(t, nextId)
    /\ nextId' = nextId + 1
    /\ lastCall' = <<"acquire", nextId, nextId \in active_sessions>>
    /\ Track
    /\ UNCHANGED <<now, status, pipeVars, handlerVars, registryVars, traceVars>>

AdminReacquire(t) ==
    /\ \E s \in active_sessions :
          /\ AcquireSession(t, s)
          /\ lastCall' = <<"acquire", s, s \in active_sessions>>
    /\ Track
    /\ UNCHANGED <<nextId, now, status, pipeVars, handlerVars, registryVars, traceVars>>

\* The client releases an id that acquire_session returned to it; the id
\* may have been released by another task that took it for its own.
AdminRelease(t) ==
    /\ \E s \in held[t] :
          /\ ReleaseSession(t, s)
          /\ lastCall' = <<"release", s, s \in active_sessions>>
    /\ Track
    /\ UNCHANGED <<nextId, now, status, pipeVars, handlerVars, registryVars, traceVars>>

\* Time passes.
Tick ==
    /\ now < MaxClock
    /\ now' = now + 1
    /\ UNCHANGED <<coreVars, nextId, obsVars, status, lastCall, pipeVars, handlerVars, registryVars, traceVars>>

AdminInit ==
    /\ InitCore(NFairTasks)
    /\ InitObs
    /\ InitExt
    /\ InitPipeIdle

AdminNext ==
    \/ \E t \in Task :
        \/ ClientRun(t)
        \/ ClientResumeAfterFuture(t)
        \/ ClientResumeAfterSemaphore(t)
        \/ AdminAcquire(t)
        \/ AdminReacquire(t)
        \/ AdminRelease(t)
        \/ ClientAwait(t)
        \/ ClientAwaitDone(t)
        \/ ClientFinish(t)
    \/ Tick

AdminSpec == AdminInit /\ [][AdminNext]_vars

\* -------------------------- the limiter under clients that ask its status
StatusQuery(t) ==
    /\ running = {t}
    /\ pc[t] = "run"
    /\ status' = GetQueueStatus
    /\ UNCHANGED <<coreVars, nextId, obsVars, now, lastCall, pipeVars, handlerVars, registryVars, traceVars>>

StatusNext ==
    \E t \in Task :
        \/ ClientRun(t)
        \/ ClientResumeAfterFuture(t)
        \/ ClientResumeAfterSemaphore(t)
        \/ ClientAcquire(t)
        \/ ClientRelease(t)
        \/ StatusQuery(t)
        \/ ClientAwait(t)
        \/ ClientAwaitDone(t)
        \/ ClientFinish(t)

StatusSpec == AdminInit /\ [][StatusNext]_vars

\* ------------- the limiter under clients that pass an id that is waiting

\* The client calls acquire_session with the id of a call that is still
\* suspended at line 43 or at line 46 (queued or woken, and not yet recorded
\* in active_sessions), and that it does not hold itself.
DupAcquire(t) ==
    /\ \E s \in {cur[p] : p \in {q \in Task :
                     pc[q] \in {"waitFut", "futReady", "waitSem", "semReady"}}} \ held[t] :
           AcquireSession(t, s)
    /\ UNCHANGED <<nextId, obsVars, pipeVars, extVars>>

\* The client calls acquire_session with a fresh id.
DupFreshAcquire(t) ==
    /\ nextId <= MaxReuseIds
    /\ AcquireSession(t, nextId)
    /\ nextId' = nextId + 1
    /\ UNCHANGED <<obsVars, pipeVars, extVars>>

DupResumeAfterFuture(t) ==
    ResumeAfterFuture(t) /\ UNCHANGED <<nextId, obsVars, pipeVars, extVars>>

DupResumeAfterSemaphore(t) ==
    ResumeAfterSemaphore(t) /\ UNCHANGED <<nextId, obsVars, pipeVars, extVars>>

\* The client releases an id whose acquire has returned to it.
DupRelease(t) ==
    /\ \E s \in held[t] : ReleaseSession(t, s)
    /\ UNCHANGED <<nextId, obsVars, pipeVars, extVars>>

DupNext ==
    \E t \in Task :
        \/ ClientRun(t)
        \/ DupResumeAfterFuture(t)
        \/ DupResumeAfterSemaphore(t)
        \/ DupFreshAcquire(t)
        \/ DupAcquire(t)
        \/ DupRelease(t)
        \/ ClientAwait(t)
        \/ ClientAwaitDone(t)
        \/ ClientFinish(t)

DupSpec == Init /\ [][DupNext]_vars

\* ------------------------------------- send_request, handler by handler
\* In this section a limiter is its capacity and the set of sessions it has
\* recorded: acquire_session is taken from its call to the recording of
\* lines 49-54, which happens when the limiter has a free slot, and
\* release_session as the removal of line 69.
\* The limiter on which a handler's send_request calls acquire_session and
\* release_session: self.rate_limiter in llm_handler_anthropic.py (lines 73
\* and 111), the module's rate_limiter in llm_handler_openai.py (lines 64
\* and 104).
SendLimiter(h) == IF h = "openai" THEN "global" ELSE h

\* A request calls send_request of handler h: lines 60-64 / 69-73, up to
\* the await of acquire_session.
HandlerSend(r, h) ==
    /\ reqAt[r] = "idle"
    /\ reqAt' = [reqAt EXCEPT ![r] = "acquire"]
    /\ reqHandler' = [reqHandler EXCEPT ![r] = h]
    /\ UNCHANGED <<capacity, limiterActive>>

\* acquire_session returns: the session is recorded and the transport call
\* is awaited.
HandlerAdmit(r) ==
    /\ reqAt[r] = "acquire"
    /\ LET l == SendLimiter(reqHandler[r]) IN
       \* max_concurrent_sessions of the limiter: what the handler was
       \* constructed with for its own, the default of LLMRateLimiter() for
       \* the module's.
       /\ Cardinality(limiterActive[l]) <
              (IF l = "global" THEN DefaultCapacity ELSE capacity[l])
       /\ limiterActive' = [limiterActive EXCEPT ![l] = @ \cup {r}]
    /\ reqAt' = [reqAt EXCEPT ![r] = "transport"]
    /\ UNCHANGED <<capacity, reqHandler>>

\* The transport call returns or raises; the finally block releases the
\* session on the limiter it was acquired on.
HandlerDone(r) ==
    /\ reqAt[r] = "transport"
    /\ LET l == SendLimiter(reqHandler[r]) IN
       limiterActive' = [limiterActive EXCEPT ![l] = @ \ {r}]
    /\ reqAt' = [reqAt EXCEPT ![r] = "idle"]
    /\ UNCHANGED <<capacity, reqHandler>>

\* Each handler was constructed with max_concurrent_sessions = c and no
\* rate_limiter argument (llm_handler.py lines 78-81).
HandlerInit ==
    /\ InitCore(0)
    /\ InitObs
    /\ InitAdminIdle
    /\ InitRegistryIdle
    /\ InitTraceIdle
    /\ InitPipeIdle
    /\ capacity \in [Handler -> 1..MaxCapacity]
    /\ limiterActive = [l \in Limiter |-> {}]
    /\ reqAt = [r \in Req |-> "idle"]
    /\ reqHandler = [r \in Req |-> "anthropic"]

HandlerNext ==
    \E r \in Req :
        \/ \E h \in Handler :
              HandlerSend(r, h) /\ UNCHANGED <<coreVars, nextId, obsVars, pipeVars, adminVars, registryVars, traceVars>>
        \/ HandlerAdmit(r) /\ UNCHANGED <<coreVars, nextId, obsVars, pipeVars, adminVars, registryVars, traceVars>>
        \/ HandlerDone(r) /\ UNCHANGED <<coreVars, nextId, obsVars, pipeVars, adminVars, registryVars, traceVars>>

HandlerSpec == HandlerInit /\ [][HandlerNext]_vars

\* ---------------------------------------------- ProcessorCore's registry
\* isinstance(handler, BaseLLMHandler), lines 42 and 86.
IsBaseLLMHandler(o) == o \in {"h1", "h2", "created"}

\* self.llm_handlers[name] = handler
Put(reg, name, o) ==
    [x \in DOMAIN reg \cup {name} |-> IF x = name THEN o ELSE reg[x]]

Without_Nothing(reg, name) == reg

\* del self.llm_handlers[name]
Without(reg, name) == [x \in DOMAIN reg \ {name} |-> reg[x]]

IsDefault_Never(name) == FALSE

\* Line 104: name == "default".
IsDefault(name) == name = "default"

Available_Nothing == {}

\* Line 226: list(self.llm_handlers.keys()), in the error's message.
Available == DOMAIN llm_handlers

Raised(op, name, error, names) ==
    [op |-> op, name |-> name, ret |-> "none", error |-> error,
     names |-> names, sends |-> 0]

Returned(op, name, value, sends) ==
    [op |-> op, name |-> name, ret |-> value, error |-> "none",
     names |-> {}, sends |-> sends]

\* Lines 46-57: the default handler found among the arguments, "None" when
\* there is none.
FoundDefault(h, hs) ==
    IF h # "None" THEN h
    ELSE IF DOMAIN hs = {} THEN "None"
    ELSE IF "default" \in DOMAIN hs THEN hs["default"]
    ELSE IF Cardinality(DOMAIN hs) = 1 THEN hs[CHOOSE n \in DOMAIN hs : TRUE]
    ELSE "None"

\* ProcessorCore(llm_handler = h, llm_handlers = hs), lines 34-73; `made` is
\* what LLMHandler.create gives when line 61 calls it: a handler, or
\* "raise".  Line 73 calls lower(name), a name that is not defined: the
\* loop raises NameError on its first pass.
Construct(h, hs, made) ==
    /\ coreState = "unbuilt"
    /\ IF \E n \in DOMAIN hs : ~IsBaseLLMHandler(hs[n])
       THEN \* lines 40-43
            /\ coreState' = "failed"
            /\ regOut' = Raised("__init__", "none", "ValueError", {})
            /\ UNCHANGED <<llm_handlers, llm_handler>>
       ELSE IF FoundDefault(h, hs) = "None" /\ made = "raise"
       THEN \* lines 60-64
            /\ coreState' = "failed"
            /\ regOut' = Raised("__init__", "none", "CreateError", {})
            /\ UNCHANGED <<llm_handlers, llm_handler>>
       ELSE LET default_handler ==
                    IF FoundDefault(h, hs) = "None" THEN made ELSE FoundDefault(h, hs)
            IN
            /\ llm_handlers' = Put([n \in {} |-> "h1"], "default", default_handler)
            /\ llm_handler' = default_handler
            /\ IF DOMAIN hs # {}
               THEN \* lines 71-73
                    /\ coreState' = "failed"
                    /\ regOut' = Raised("__init__", "none", "NameError", {})
               ELSE /\ coreState' = "ready"
                    /\ regOut' = Returned("__init__", "none", "none", 0)

\* add_llm_handler(name, handler), lines 86-89.
AddLlmHandler(name, o) ==
    /\ coreState = "ready"
    /\ IF ~IsBaseLLMHandler(o)
       THEN /\ regOut' = Raised("add_llm_handler", name, "ValueError", {})
            /\ UNCHANGED llm_handlers
       ELSE /\ llm_handlers' = Put(llm_handlers, name, o)
            /\ regOut' = Returned("add_llm_handler", name, "None", 0)
    /\ UNCHANGED <<llm_handler, coreState>>

\* remove_llm_handler(name), lines 104-111.
RemoveLlmHandler(name) ==
    /\ coreState = "ready"
    /\ IF IsDefault(name)
       THEN /\ regOut' = Raised("remove_llm_handler", name, "ValueError", {})
            /\ UNCHANGED llm_handlers
       ELSE IF name \in DOMAIN llm_handlers
       THEN /\ llm_handlers' = Without(llm_handlers, name)
            /\ regOut' = Returned("remove_llm_handler", name, "True", 0)
       ELSE /\ regOut' = Returned("remove_llm_handler", name, "False", 0)
            /\ UNCHANGED llm_handlers
    /\ UNCHANGED <<llm_handler, coreState>>

\* get_llm_handler(name), line 123: self.llm_handlers.get(name).
GetLlmHandler(name) ==
    /\ coreState = "ready"
    /\ regOut' = Returned("get_llm_handler", name,
                          IF name \in DOMAIN llm_handlers THEN llm_handlers[name] ELSE "None",
                          0)
    /\ UNCHANGED <<llm_handlers, llm_handler, coreState>>

\* set_default_handler(name), lines 144-150.
SetDefaultHandler(name) ==
    /\ coreState = "ready"
    /\ IF name \notin DOMAIN llm_handlers
       THEN /\ regOut' = Raised("set_default_handler", name, "ValueError", {})
            /\ UNCHANGED <<llm_handlers, llm_handler>>
       ELSE /\ llm_handlers' = Put(llm_handlers, "default", llm_handlers[name])
            /\ llm_handler' = llm_handlers[name]
            /\ regOut' = Returned("set_default_handler", name, "None", 0)
    /\ UNCHANGED coreState

\* Line 224: handler_name = handler or "default".
HandlerNameOf(arg) == IF arg = "None" THEN "default" ELSE arg

\* process(..., handler = arg), lines 223-262, with a transport that returns
\* (ok) or raises.  An object that is no handler has no provider: line 247
\* raises AttributeError before the send.
Process(arg, ok) ==
    /\ coreState = "ready"
    /\ LET name == HandlerNameOf(arg) IN
       regOut' =
           IF name \notin DOMAIN llm_handlers
           THEN Raised("process", name, "ValueError", Available)
           ELSE IF ~IsBaseLLMHandler(llm_handlers[name])
           THEN Raised("process", name, "AttributeError", {})
           ELSE IF ok THEN Returned("process", name, "response", 1)
           ELSE [Raised("process", name, "TransportError", {}) EXCEPT !.sends = 1]
    /\ UNCHANGED <<llm_handlers, llm_handler, coreState>>

\* process_v2(..., handler = arg), lines 273-292: up to three calls of
\* process, whose last error is named in the message of the Exception that
\* line 292 raises; `n` is the number of the attempt that succeeds, 0 when
\* none does.  (The sends of _clean_json_response's repairs are not counted
\* here.)
ProcessV2(arg, n) ==
    /\ coreState = "ready"
    /\ LET name == HandlerNameOf(arg) IN
       regOut' =
           IF name \notin DOMAIN llm_handlers
           THEN Raised("process_v2", name, "Exception", Available)
           ELSE IF ~IsBaseLLMHandler(llm_handlers[name])
           THEN Raised("process_v2", name, "Exception", {})
           ELSE IF n > 0 THEN Returned("process_v2", name, "response", n)
           ELSE [Raised("process_v2", name, "Exception", {}) EXCEPT !.sends = V2MaxRetries]
    /\ UNCHANGED <<llm_handlers, llm_handler, coreState>>

RegistryInit ==
    /\ InitCore(0)
    /\ InitObs
    /\ InitAdminIdle
    /\ InitHandlersIdle
    /\ InitRegistryIdle
    /\ InitTraceIdle
    /\ InitPipeIdle

nonRegistryVars == <<coreVars, nextId, obsVars, pipeVars, adminVars, handlerVars, traceVars>>

RegistryNext ==
    \/ \E h \in {"None", "h1", "junk"}, D \in SUBSET HandlerName, made \in {"created", "raise"} :
          \E hs \in [D -> {"h1", "h2", "junk"}] :
              /\ Construct(h, hs, made)
              /\ ctorArgs' = [llm_handler |-> h, llm_handlers |-> hs]
              /\ UNCHANGED <<coreVars, nextId, obsVars, pipeVars, adminVars, handlerVars,
                             sendCount, invocations, delays, handlerArg, via>>
    \* Handler objects: two instances of BaseLLMHandler, the one that
    \* LLMHandler.create() makes, and an object that is no BaseLLMHandler.
    \/ \E name \in HandlerName, o \in {"h1", "h2", "created", "junk"} :
          AddLlmHandler(name, o) /\ UNCHANGED nonRegistryVars
    \/ \E name \in HandlerName :
          RemoveLlmHandler(name) /\ UNCHANGED nonRegistryVars
    \/ \E name \in HandlerName :
          GetLlmHandler(name) /\ UNCHANGED nonRegistryVars
    \/ \E name \in HandlerName :
          SetDefaultHandler(name) /\ UNCHANGED nonRegistryVars
    \/ \E arg \in HandlerName \cup {"None"}, ok \in BOOLEAN :
          Process(arg, ok) /\ UNCHANGED nonRegistryVars
    \/ \E arg \in HandlerName \cup {"None"}, n \in 0..V2MaxRetries :
          ProcessV2(arg, n) /\ UNCHANGED nonRegistryVars

RegistrySpec == RegistryInit /\ [][RegistryNext]_vars

\* ------------------------------------------- the single-request pipeline
\* What one transport call can give the pipeline: the call raises ("error"),
\* or returns raw text that lacks the begin marker ("nomarker"), whose block
\* fails both parses ("malformed"), parses to a mapping, list or string
\* without the process_type key ("nokey"), to another value that is no
\* mapping with the key ("nonmap"), or to a mapping with it ("ok").
Outcomes == {"ok", "nokey", "nonmap", "malformed", "nomarker", "error"}

FreshId_Fixed(t) == 1

\* session_id = str(uuid.uuid4()): an id no other live request uses.  A task
\* has one request in progress at a time and a released id leaves no trace
\* in the limiter, so the task's index stands for the id of its request.
FreshId(t) == t

\* The value under process_type in the model's answer to task t's prompt;
\* the pipeline never inspects it, so it is tagged with the prompt's owner.
Answer(t) == t

\* send_request, lines 69-73: a fresh id, then acquire_session.
PipeSend(t) ==
    /\ at[t] = "send"
    /\ AcquireSession(t, FreshId(t))
    /\ at' = [at EXCEPT ![t] = "acquire"]
    /\ UNCHANGED <<kind, v2retries, retry_count, outcome, result, v2error, faults>>

PipeResumeAfterFuture(t) ==
    ResumeAfterFuture(t) /\ UNCHANGED v2Vars

PipeResumeAfterSemaphore(t) ==
    ResumeAfterSemaphore(t) /\ UNCHANGED v2Vars

\* send_request, line 92: acquire_session has returned; the transport call
\* is awaited.
PipeTransport(t) ==
    /\ at[t] = "acquire"
    /\ Suspend(t)
    /\ at' = [at EXCEPT ![t] = "transport"]
    /\ UNCHANGED <<kind, v2retries, retry_count, outcome, result, v2error, faults>>

\* The transport call completes with outcome o.
PipeTransportDone(t, o) ==
    /\ at[t] = "transport"
    /\ o # "ok" => faults > 0
    /\ Complete(t)
    /\ outcome' = [outcome EXCEPT ![t] = o]
    /\ faults' = IF o = "ok" THEN faults ELSE faults - 1
    /\ UNCHANGED <<at, kind, v2retries, retry_count, result, v2error>>

PipeRun(t) ==
    RunReady(t) /\ UNCHANGED v2Vars

ReleaseInFinally_OnlyOnSuccess(t) ==
    IF outcome[t] = "error"
    THEN UNCHANGED coreVars
    ELSE ReleaseSession(t, cur[t])

\* send_request, lines 106-111: `finally: release_session(session_id)`,
\* whether the transport call returned or raised.
ReleaseInFinally(t) ==
    ReleaseSession(t, cur[t])

PipeRelease_KeepsSlot(t) ==
    /\ at[t] = "transport"
    /\ running = {t}
    /\ pc[t] = "run"
    /\ at' = [at EXCEPT ![t] = "returned"]
    /\ UNCHANGED coreVars
    /\ UNCHANGED <<kind, v2retries, retry_count, outcome, result, v2error, faults>>

\* The task resumes in send_request after the transport call: the finally
\* clause runs and send_request returns or raises to process().
PipeRelease(t) ==
    /\ at[t] = "transport"
    /\ ReleaseInFinally(t)
    /\ at' = [at EXCEPT ![t] = "returned"]
    /\ UNCHANGED <<kind, v2retries, retry_count, outcome, result, v2error, faults>>

\* The exceptions of lines 163, 185 and 197.
InvalidResponse == [kind |-> "invalid_response", attempts |-> 0]
AfterAttempts(n) == [kind |-> "invalid_json_after_attempts", attempts |-> n]
InvalidJson == [kind |-> "invalid_json", attempts |-> 0]

\* The exception of a transport call (re-raised by send_request and by
\* process), the ValueError of line 287, and the TypeError of lines 286 and
\* 288.
TransportError == [kind |-> "transport_error", attempts |-> 0]

ProcessError_Wrapped(e) == InvalidJson

\* process(), lines 260-262: `except Exception as e: ...; raise`: the
\* exception that send_request raised is the one process raises.
ProcessError(e) == e

Exhausted_OffByOne(rc, m) == rc > m

\* Line 183: if retry_count >= max_retries.
Exhausted(rc, m) == rc >= m

\* _clean_json_response(raw, rc, max_retries) on text of class o, up to its
\* exit or its repair call: "raise" (line 163, line 185), "parsed" (line
\* 198) or "repair" (lines 186-192).
Extract(o, rc) ==
    CASE o = "nomarker" -> "raise"
      [] o = "malformed" -> IF Exhausted(rc, CleanMaxRetries) THEN "raise" ELSE "repair"
      [] OTHER -> "parsed"

\* The exception e that line 289 catches when the attempt fails on a
\* transport outcome o met at retry_count rc: an exception met in a recursive
\* call or in process(__fix_json__) (rc > 0) reaches process_v2 as the
\* ValueError of line 197; `process_type not in cleaned_response` raises
\* TypeError on a number, a boolean or null, and
\* cleaned_response[process_type] raises it on a list or string that holds
\* process_type ("nonmap").
AttemptError(o, rc) ==
    IF o = "nokey" THEN ([kind |-> "missing_main_key", attempts |-> 0])
    ELSE IF o = "nonmap" THEN ([kind |-> "type_error", attempts |-> 0])
    ELSE IF rc > 0 THEN InvalidJson
    ELSE IF o = "error" THEN ProcessError(TransportError)
    ELSE IF o = "nomarker" THEN InvalidResponse
    ELSE AfterAttempts(CleanMaxRetries + 1)

V2Exhausted_Never(r) == FALSE

\* process_v2, line 291: if retries >= max_retries.
V2Exhausted(r) == r >= V2MaxRetries

\* process() has returned or raised to process_v2 / _clean_json_response:
\* lines 285-292 and 154-198 up to the next send or to process_v2's exit.
PipeHandle(t) ==
    /\ running = {t}
    /\ at[t] = "returned"
    /\ LET o == outcome[t]
           x == IF o = "error" THEN "raise" ELSE Extract(o, retry_count[t])
       IN
       IF x = "repair"
       THEN \* lines 186-193: process(__fix_json__), then the recursive call
            /\ at' = [at EXCEPT ![t] = "send"]
            /\ kind' = [kind EXCEPT ![t] = "fix"]
            /\ retry_count' = [retry_count EXCEPT ![t] = @ + 1]
            /\ UNCHANGED <<v2retries, result, v2error>>
       ELSE IF x = "parsed" /\ o = "ok"
       THEN \* line 288
            /\ at' = [at EXCEPT ![t] = "v2_returned"]
            /\ result' = [result EXCEPT ![t] = Answer(t)]
            /\ UNCHANGED <<kind, v2retries, retry_count, v2error>>
       ELSE \* lines 289-292: the attempt failed
            /\ v2retries' = [v2retries EXCEPT ![t] = @ + 1]
            /\ IF V2Exhausted(v2retries[t] + 1)
               THEN \* line 292: raise Exception(f"... {max_retries} retries: {e}")
                    /\ at' = [at EXCEPT ![t] = "v2_raised"]
                    /\ v2error' = [v2error EXCEPT ![t] = AttemptError(o, retry_count[t])]
                    /\ UNCHANGED <<kind, retry_count>>
               ELSE /\ at' = [at EXCEPT ![t] = "send"]
                    /\ kind' = [kind EXCEPT ![t] = "request"]
                    /\ retry_count' = [retry_count EXCEPT ![t] = 0]
                    /\ UNCHANGED v2error
            /\ UNCHANGED result
    /\ outcome' = [outcome EXCEPT ![t] = "none"]
    /\ UNCHANGED <<coreVars, faults>>

\* process_v2 is called: lines 273-277.
CallV2(t) ==
    /\ at' = [at EXCEPT ![t] = "send"]
    /\ kind' = [kind EXCEPT ![t] = "request"]
    /\ v2retries' = [v2retries EXCEPT ![t] = 0]
    /\ retry_count' = [retry_count EXCEPT ![t] = 0]
    /\ v2error' = [v2error EXCEPT ![t] = NoError]
    /\ UNCHANGED <<outcome, result, faults>>

\* ------------------------------------------------ parallel_batch_process
\* The coroutine that awaits gather(): one more entry of the ready queue.
Main == NTasks + 1

\* The batch's tasks, one per input, in the order of the inputs.
Item == 1..NItems

Insert(x, s) ==
    LET before == {i \in DOMAIN s : s[i][1] <= x[1]}
        k == Cardinality(before)
    IN  IF \A i \in DOMAIN s : i <= k <=> i \in before
        THEN SubSeq(s, 1, k) \o <<x>> \o SubSeq(s, k + 1, Len(s))
        ELSE s \o <<x>>

RECURSIVE SortedByOrder(_)
\* sorted(unordered_responses, key=lambda x: x[0]), line 328: a stable sort
\* (insertion of each element behind the elements with a key <= its own).
SortedByOrder(s) ==
    IF s = <<>> THEN <<>>
    ELSE Insert(s[Len(s)], SortedByOrder(SubSeq(s, 1, Len(s) - 1)))

OrderedResponses_TakesKey ==
    LET sorted == SortedByOrder([i \in Item |-> ret[i]])
    IN  [i \in DOMAIN sorted |-> sorted[i][1]]

\* Line 328: the responses, sorted by order.
OrderedResponses ==
    LET sorted == SortedByOrder([i \in Item |-> ret[i]])
    IN  [i \in DOMAIN sorted |-> sorted[i][2]]

GatherRaises_ReturnExceptions(a) == FALSE

\* gather() without return_exceptions: the first exception of a task is
\* raised to the awaiter.
GatherRaises(a) == \E t \in Item : a[t] = "failed"

\* A task ends: gather's callback resolves the outer future (once), which
\* schedules the awaiting coroutine.
NotifyGather(a) ==
    IF /\ GatherRaises(a) \/ \A t \in Item : a[t] = "ok"
       /\ batchState = "gathering"
       /\ Main \notin Range(ready)
    THEN <<Main>> ELSE <<>>

\* process_batch_with_retry, lines 309-318: the loop calls process_v2.
ItemCallV2(t) ==
    /\ running = {t}
    /\ pc[t] = "run"
    /\ at[t] = "loop"
    /\ CallV2(t)
    /\ invocations' = [invocations EXCEPT ![t] = @ + 1]
    /\ UNCHANGED <<coreVars, batchVars, delays>>

\* Line 319: process_v2 returned; the task returns (order, response).
ItemReturns(t) ==
    /\ at[t] = "v2_returned"
    /\ running = {t}
    /\ pc[t] = "run"
    /\ at' = [at EXCEPT ![t] = "ok"]
    \* return (order, response), line 319; enumerate() numbers from 0.
    /\ ret' = [ret EXCEPT ![t] = <<t - 1, result[t]>>]
    /\ pc' = [pc EXCEPT ![t] = "done"]
    /\ running' = {}
    /\ ready' = ready \o NotifyGather(at')
    /\ UNCHANGED <<limiterVars, cur, held>>
    /\ UNCHANGED <<kind, v2retries, retry_count, outcome, result, v2error, faults>>
    /\ doneOrder' = Append(doneOrder, t)
    /\ UNCHANGED <<max_retries, retries, batchState, batchResult>>

Backoff_FromZero(r) == 2 ^ (r - 1)

\* Line 324: 2 ** retries, the seconds the item sleeps.
Backoff(r) == 2 ^ r

\* Lines 320-325: process_v2 raised; the item raises when its retries are
\* exhausted, else sleeps 2 ** retries seconds.
ItemFails(t) ==
    /\ at[t] = "v2_raised"
    /\ running = {t}
    /\ pc[t] = "run"
    /\ retries' = [retries EXCEPT ![t] = @ + 1]
    /\ IF retries[t] + 1 >= max_retries
       THEN /\ at' = [at EXCEPT ![t] = "failed"]
            /\ pc' = [pc EXCEPT ![t] = "done"]
            /\ ready' = ready \o NotifyGather(at')
            /\ doneOrder' = Append(doneOrder, t)
            /\ delays' = delays
       ELSE \* line 324: await asyncio.sleep(2 ** retries)
            /\ at' = [at EXCEPT ![t] = "sleep"]
            /\ pc' = [pc EXCEPT ![t] = "io"]
            /\ ready' = ready
            /\ doneOrder' = doneOrder
            /\ delays' = [delays EXCEPT ![t] = Append(@, Backoff(retries'[t]))]
    /\ UNCHANGED invocations
    /\ running' = {}
    /\ UNCHANGED <<limiterVars, cur, held>>
    /\ UNCHANGED <<kind, v2retries, retry_count, outcome, result, v2error, faults>>
    /\ UNCHANGED <<max_retries, ret, batchState, batchResult>>

\* The sleep of line 324 ends; the loop of line 309 goes round.
ItemSleepDone(t) ==
    /\ at[t] = "sleep"
    /\ Complete(t)
    /\ at' = [at EXCEPT ![t] = "loop"]
    /\ UNCHANGED <<kind, v2retries, retry_count, outcome, result, v2error, faults>>
    /\ UNCHANGED batchVars

\* Lines 327-332: gather() has resolved and the loop resumes
\* parallel_batch_process, which returns the ordered responses or raises.
BatchResume ==
    /\ running = {}
    /\ ready # <<>> /\ Head(ready) = Main
    /\ ready' = Tail(ready)
    /\ IF GatherRaises(at)
       THEN /\ batchState' = "raised"
            /\ UNCHANGED batchResult
       ELSE /\ batchState' = "returned"
            /\ batchResult' = OrderedResponses
    /\ UNCHANGED <<limiterVars, running, pc, cur, held>>
    /\ UNCHANGED <<v2Vars, max_retries, retries, ret, doneOrder>>

\* Line 306: max_retries = config.get("max_retries", 5).
ConfigMaxRetries(config) ==
    IF "max_retries" \in DOMAIN config THEN config.max_retries ELSE DefaultMaxRetries

\* parallel_batch_process has been called with NItems inputs: line 326
\* created the tasks, gather() scheduled them in order and is awaited.
BatchInitWith(f, R) ==
    /\ max_concurrent_sessions \in 1..MaxCapacity
    /\ semValue = max_concurrent_sessions
    /\ semWaiters = <<>>
    /\ waiting_queue = <<>>
    /\ active_sessions = {}
    /\ start_time = [x \in {} |-> 0]
    /\ ready = [i \in Item |-> i]
    /\ running = {}
    /\ pc = [t \in Task |-> IF t \in Item THEN "ready" ELSE "done"]
    /\ cur = [t \in Task |-> 0]
    /\ held = [t \in Task |-> {}]
    /\ InitObs
    /\ InitExt
    /\ at = [t \in Task |-> IF t \in Item THEN "loop" ELSE "idle"]
    /\ kind = [t \in Task |-> "request"]
    /\ v2retries = [t \in Task |-> 0]
    /\ retry_count = [t \in Task |-> 0]
    /\ outcome = [t \in Task |-> "none"]
    /\ result = [t \in Task |-> 0]
    /\ v2error = [t \in Task |-> NoError]
    /\ faults = f
    /\ max_retries \in R
    /\ retries = [t \in Task |-> 0]
    /\ ret = [t \in Task |-> <<>>]
    /\ batchState = "gathering"
    /\ batchResult = <<>>
    /\ doneOrder = <<>>
    /\ InitSeqIdle
    /\ InitCleanIdle

BatchNext ==
    \/ \E t \in Item :
        \/ PipeRun(t) /\ UNCHANGED <<nextId, obsVars, extVars, cleanVars, batchVars, seqVars>>
        \/ PipeSend(t) /\ UNCHANGED <<nextId, obsVars, extVars, cleanVars, batchVars, seqVars>>
        \/ PipeResumeAfterFuture(t) /\ UNCHANGED <<nextId, obsVars, extVars, cleanVars, batchVars, seqVars>>
        \/ PipeResumeAfterSemaphore(t) /\ UNCHANGED <<nextId, obsVars, extVars, cleanVars, batchVars, seqVars>>
        \/ PipeTransport(t) /\ UNCHANGED <<nextId, obsVars, extVars, cleanVars, batchVars, seqVars>>
        \/ \E o \in Outcomes :
              PipeTransportDone(t, o) /\ UNCHANGED <<nextId, obsVars, extVars, cleanVars, batchVars, seqVars>>
        \/ PipeRelease(t) /\ UNCHANGED <<nextId, obsVars, extVars, cleanVars, batchVars, seqVars>>
        \/ PipeHandle(t) /\ UNCHANGED <<nextId, obsVars, extVars, cleanVars, batchVars, seqVars>>
        \/ ItemCallV2(t) /\ UNCHANGED <<nextId, obsVars, adminVars, handlerVars,
                                     registryVars, sendCount, ctorArgs, handlerArg, via, cleanVars, seqVars>>
        \/ ItemReturns(t) /\ UNCHANGED <<nextId, obsVars, extVars, cleanVars, seqVars>>
        \/ ItemFails(t) /\ UNCHANGED <<nextId, obsVars, adminVars, handlerVars,
                                     registryVars, sendCount, ctorArgs, handlerArg, via, cleanVars, seqVars>>
        \/ ItemSleepDone(t) /\ UNCHANGED <<nextId, obsVars, extVars, cleanVars, seqVars>>
    \/ BatchResume /\ UNCHANGED <<nextId, obsVars, extVars, cleanVars, seqVars>>

BatchSpec == BatchInitWith(MaxFaults, 1..MaxBatchRetries) /\ [][BatchNext]_vars

\* The event loop resumes every task that is ready, every transport call
\* returns or raises, and every sleep ends.
BatchFairSpec == BatchSpec /\ WF_vars(BatchNext)

\* The batch under a transport that may fail more often: enough for one
\* item to exhaust its retries while another still has failures to meet.
\* The prompt config of the batch's process type has max_retries set, or
\* has no such key.
LongBatchSpec ==
    /\ BatchInitWith(MaxLongFaults,
           {ConfigMaxRetries(config) :
               config \in {[max_retries |-> n] : n \in 1..MaxBatchRetries}
                              \cup {[timeout |-> 0]}})
    /\ [][BatchNext]_vars

\* ------------------------------------------------ process_v2, call by call
\* Each of NItems tasks calls process_v2 once; the transport may answer
\* every call with any outcome.
V2Call(t) ==
    /\ running = {t}
    /\ pc[t] = "run"
    /\ at[t] = "idle"
    /\ CallV2(t)
    /\ sendCount' = [sendCount EXCEPT ![t] = 0]
    /\ UNCHANGED coreVars

\* process_v2 has returned or raised to the task, which ends.
V2Exit(t) ==
    /\ at[t] \in {"v2_returned", "v2_raised"}
    /\ Finish(t)
    /\ UNCHANGED <<v2Vars, sendCount>>

\* The transport call is started: one more send of this process_v2 call.
V2Transport(t) ==
    /\ PipeTransport(t)
    /\ sendCount' = [sendCount EXCEPT ![t] = @ + 1]

FixHandlerArg_Inherits(arg) == arg

\* _clean_json_response, lines 188-191: process(components=...,
\* process_type="__fix_json__") is called without a handler argument.
FixHandlerArg(arg) == "None"

\* process(), lines 223-228, as called for task t's send: by process_v2 with
\* its handler argument (line 283), or by _clean_json_response.
V2Send(t) ==
    /\ PipeSend(t)
    /\ via' = [via EXCEPT ![t] =
                 HandlerNameOf(IF kind[t] = "fix" THEN FixHandlerArg(handlerArg[t])
                               ELSE handlerArg[t])]

\* Each task of Item is about to call process_v2, with a handler argument
\* of A, on a transport that may fail f times.
V2InitWith(f, A) ==
    /\ max_concurrent_sessions \in 1..MaxCapacity
    /\ semValue = max_concurrent_sessions
    /\ semWaiters = <<>>
    /\ waiting_queue = <<>>
    /\ active_sessions = {}
    /\ start_time = [x \in {} |-> 0]
    /\ ready = [i \in Item |-> i]
    /\ running = {}
    /\ pc = [t \in Task |-> IF t \in Item THEN "ready" ELSE "done"]
    /\ cur = [t \in Task |-> 0]
    /\ held = [t \in Task |-> {}]
    /\ InitObs
    /\ InitAdminIdle
    /\ InitHandlersIdle
    /\ InitRegistryIdle
    /\ sendCount = [t \in Task |-> 0]
    /\ invocations = [t \in Task |-> 0]
    /\ delays = [t \in Task |-> <<>>]
    /\ ctorArgs = [llm_handler |-> "None", llm_handlers |-> <<>>]
    /\ handlerArg \in {[t \in Task |-> IF t \in Item THEN g[t] ELSE "None"] : g \in [Item -> A]}
    /\ via = [t \in Task |-> "none"]
    /\ at = [t \in Task |-> "idle"]
    /\ kind = [t \in Task |-> "request"]
    /\ v2retries = [t \in Task |-> 0]
    /\ retry_count = [t \in Task |-> 0]
    /\ outcome = [t \in Task |-> "none"]
    /\ result = [t \in Task |-> 0]
    /\ v2error = [t \in Task |-> NoError]
    /\ faults = f
    /\ InitBatchIdle
    /\ InitSeqIdle
    /\ InitCleanIdle

v2RestVars == <<nextId, obsVars, adminVars, handlerVars, registryVars,
                batchVars, seqVars, cleanVars, invocations, delays, ctorArgs,
                handlerArg>>

V2Next ==
    \E t \in Item :
        \/ PipeRun(t) /\ UNCHANGED <<v2RestVars, sendCount, via>>
        \/ V2Call(t) /\ UNCHANGED <<v2RestVars, via>>
        \/ V2Send(t) /\ UNCHANGED <<v2RestVars, sendCount>>
        \/ PipeResumeAfterFuture(t) /\ UNCHANGED <<v2RestVars, sendCount, via>>
        \/ PipeResumeAfterSemaphore(t) /\ UNCHANGED <<v2RestVars, sendCount, via>>
        \/ V2Transport(t) /\ UNCHANGED <<v2RestVars, via>>
        \/ \E o \in Outcomes :
              PipeTransportDone(t, o) /\ UNCHANGED <<v2RestVars, sendCount, via>>
        \/ PipeRelease(t) /\ UNCHANGED <<v2RestVars, sendCount, via>>
        \/ PipeHandle(t) /\ UNCHANGED <<v2RestVars, sendCount, via>>
        \/ V2Exit(t) /\ UNCHANGED <<v2RestVars, via>>

\* The event loop resumes every task that is ready and every transport call
\* returns or raises.
V2Spec == V2InitWith(MaxV2Faults, {"None"}) /\ [][V2Next]_vars /\ WF_vars(V2Next)

\* The same calls, made with and without a handler name, on a transport
\* that fails less often; the handlers registered as "default" and "a"
\* admit through one rate limiter.
NamedSpec == V2InitWith(MaxNamedFaults, {"None", "a"}) /\ [][V2Next]_vars

\* ---------------------------------------------- sequential_batch_process
\* The input fields the carry map fills and the result keys it reads.
InKeys == {"x", "y"}
SrcKeys == {"a", "b"}

\* A dict over SrcKeys, d[k] = "missing" standing for `k not in d`; a value
\* that is no dict has dict = FALSE, and container = TRUE when `in` can be
\* applied to it (a list, a string).
Has(r, k) == r.dict /\ r.items[k] # "missing"

\* The structured values process_v2 can return for chunk i: a dict holding
\* any of the source keys (its values tagged with the chunk they answer),
\* a value that is not a container (a number, null), or a list or string
\* that holds none of the source keys.
ResultsFor(i) ==
    {[dict |-> TRUE, container |-> TRUE,
      items |-> [k \in SrcKeys |-> IF k \in S THEN ToString(i) ELSE "missing"]] :
        S \in SUBSET SrcKeys}
    \cup {[dict |-> FALSE, container |-> c,
           items |-> [k \in SrcKeys |-> "missing"]] : c \in BOOLEAN}

\* Line 346: response = {val: "n/a" for val in sequential_config.values()}.
InitialResponse(config) ==
    [dict |-> TRUE, container |-> TRUE,
     items |-> [k \in SrcKeys |->
                  IF \E f \in DOMAIN config : config[f] = k THEN "n/a" ELSE "missing"]]

\* Lines 348-350: for key, val in sequential_config.items():
\*                    if val in response: chunk[key] = response.get(val)
Inject(chunk, r, config) ==
    [f \in DOMAIN chunk |->
        IF f \in DOMAIN config /\ Has(r, config[f])
        THEN r.items[config[f]] ELSE chunk[f]]

\* `val in response` raises TypeError when response is not a container; on
\* a list or string that does not hold val it is False and the field is
\* left alone.
InjectRaises(r, config) == ~r.container /\ DOMAIN config # {}

NextResponse_Stale(old, new) == old

\* Line 351: response = await self.process_v2(...).
NextResponse(old, new) == new

ChunkAfter_Skips(i) == i + 2

\* Line 347: for chunk in chunks.
ChunkAfter(i) == i + 1

\* The generator is resumed (first __anext__, or the one after a yield):
\* the loop of line 347 takes the next chunk, injects the carried fields
\* and calls process_v2; with no chunk left the generator ends.
SeqNextChunk(t) ==
    /\ running = {t}
    /\ pc[t] = "run"
    /\ at[t] = "seq_next"
    /\ IF ChunkAfter(chunkIdx) > NChunks
       THEN /\ at' = [at EXCEPT ![t] = "seq_done"]
            /\ UNCHANGED <<kind, v2retries, retry_count, outcome, result, v2error, faults>>
            /\ UNCHANGED <<chunkIdx, sent, startedIdx>>
       ELSE IF InjectRaises(response, sequential_config)
       THEN /\ at' = [at EXCEPT ![t] = "seq_raised"]
            /\ UNCHANGED <<kind, v2retries, retry_count, outcome, result, v2error, faults>>
            /\ UNCHANGED <<chunkIdx, sent, startedIdx>>
       ELSE /\ chunkIdx' = ChunkAfter(chunkIdx)
            \* Every chunk the caller passes is a dict of its own that holds
            \* the caller's value under each input field.
            /\ sent' = Append(sent, Inject([k \in InKeys |-> "own"],
                                           response, sequential_config))
            /\ startedIdx' = Append(startedIdx, chunkIdx')
            /\ CallV2(t)
    /\ UNCHANGED <<coreVars, sequential_config, response, results, requested>>

SeqYield_Eager(t) ==
    /\ running = {t}
    /\ pc[t] = "run"
    /\ at[t] = "v2_returned"
    /\ \E d \in ResultsFor(chunkIdx) :
          /\ response' = NextResponse(response, d)
          /\ results' = Append(results, d)
    /\ at' = [at EXCEPT ![t] = "seq_next"]
    /\ UNCHANGED <<coreVars, kind, v2retries, retry_count, outcome, result, v2error, faults>>
    /\ UNCHANGED <<sequential_config, chunkIdx, sent, startedIdx, requested>>

\* Lines 351-359: process_v2 returned d; it becomes `response` and is
\* yielded to the consumer: the generator is suspended at the yield until
\* the consumer asks for the next element.
SeqYield(t) ==
    /\ running = {t}
    /\ pc[t] = "run"
    /\ at[t] = "v2_returned"
    /\ \E d \in ResultsFor(chunkIdx) :
          /\ response' = NextResponse(response, d)
          /\ results' = Append(results, d)
    /\ at' = [at EXCEPT ![t] = "seq_yielded"]
    /\ UNCHANGED <<coreVars, kind, v2retries, retry_count, outcome, result, v2error, faults>>
    /\ UNCHANGED <<sequential_config, chunkIdx, sent, startedIdx, requested>>

\* The consumer asks for the next element (`async for`, line 377).
SeqConsumerNext(t) ==
    /\ running = {t}
    /\ pc[t] = "run"
    /\ at[t] = "seq_yielded"
    /\ at' = [at EXCEPT ![t] = "seq_next"]
    /\ requested' = requested + 1
    /\ UNCHANGED <<coreVars, kind, v2retries, retry_count, outcome, result, v2error, faults>>
    /\ UNCHANGED <<sequential_config, chunkIdx, response, sent, results, startedIdx>>

SeqRaise_Swallows(t) ==
    /\ running = {t}
    /\ pc[t] = "run"
    /\ at[t] = "v2_raised"
    /\ at' = [at EXCEPT ![t] = "seq_next"]
    /\ UNCHANGED <<coreVars, kind, v2retries, retry_count, outcome, result, v2error, faults>>
    /\ UNCHANGED seqVars

\* Lines 360-362: process_v2 raised; the generator logs and re-raises.
SeqRaise(t) ==
    /\ running = {t}
    /\ pc[t] = "run"
    /\ at[t] = "v2_raised"
    /\ at' = [at EXCEPT ![t] = "seq_raised"]
    /\ UNCHANGED <<coreVars, kind, v2retries, retry_count, outcome, result, v2error, faults>>
    /\ UNCHANGED seqVars

\* The generator has ended or raised; the consumer's task ends.
SeqEnd(t) ==
    /\ at[t] \in {"seq_done", "seq_raised"}
    /\ Finish(t)
    /\ UNCHANGED <<v2Vars, seqVars>>

\* A consumer task has been scheduled that will iterate
\* sequential_batch_process(chunks, ..., sequential_config).
SeqInit ==
    /\ max_concurrent_sessions \in 1..MaxCapacity
    /\ semValue = max_concurrent_sessions
    /\ semWaiters = <<>>
    /\ waiting_queue = <<>>
    /\ active_sessions = {}
    /\ start_time = [x \in {} |-> 0]
    /\ ready = <<1>>
    /\ running = {}
    /\ pc = [t \in Task |-> IF t = 1 THEN "ready" ELSE "done"]
    /\ cur = [t \in Task |-> 0]
    /\ held = [t \in Task |-> {}]
    /\ InitObs
    /\ InitExt
    /\ at = [t \in Task |-> IF t = 1 THEN "seq_next" ELSE "idle"]
    /\ kind = [t \in Task |-> "request"]
    /\ v2retries = [t \in Task |-> 0]
    /\ retry_count = [t \in Task |-> 0]
    /\ outcome = [t \in Task |-> "none"]
    /\ result = [t \in Task |-> 0]
    /\ v2error = [t \in Task |-> NoError]
    /\ faults = MaxFaults
    /\ InitBatchIdle
    /\ InitCleanIdle
    /\ sequential_config \in [InKeys -> SrcKeys]
    /\ chunkIdx = 0
    /\ response = InitialResponse(sequential_config)
    /\ sent = <<>>
    /\ results = <<>>
    /\ startedIdx = <<>>
    /\ requested = 1

SeqNext ==
    \E t \in {1} :
        \/ PipeRun(t) /\ UNCHANGED <<nextId, obsVars, extVars, cleanVars, batchVars, seqVars>>
        \/ PipeSend(t) /\ UNCHANGED <<nextId, obsVars, extVars, cleanVars, batchVars, seqVars>>
        \/ PipeTransport(t) /\ UNCHANGED <<nextId, obsVars, extVars, cleanVars, batchVars, seqVars>>
        \/ \E o \in Outcomes :
              PipeTransportDone(t, o) /\ UNCHANGED <<nextId, obsVars, extVars, cleanVars, batchVars, seqVars>>
        \/ PipeRelease(t) /\ UNCHANGED <<nextId, obsVars, extVars, cleanVars, batchVars, seqVars>>
        \/ PipeHandle(t) /\ UNCHANGED <<nextId, obsVars, extVars, cleanVars, batchVars, seqVars>>
        \/ SeqNextChunk(t) /\ UNCHANGED <<nextId, obsVars, extVars, cleanVars, batchVars>>
        \/ SeqYield(t) /\ UNCHANGED <<nextId, obsVars, extVars, cleanVars, batchVars>>
        \/ SeqConsumerNext(t) /\ UNCHANGED <<nextId, obsVars, extVars, cleanVars, batchVars>>
        \/ SeqRaise(t) /\ UNCHANGED <<nextId, obsVars, extVars, cleanVars, batchVars>>
        \/ SeqEnd(t) /\ UNCHANGED <<nextId, obsVars, extVars, cleanVars, batchVars>>

SeqSpec == SeqInit /\ [][SeqNext]_vars

\* ------------------------------------------------- _clean_json_response
\* A raw text is a sequence of tokens: the markers __json_start__ ("S") and
\* __json_end__ ("E"), complete JSON documents ("d1", "d2"), a JSON document
\* whose strings hold raw newlines ("dn"), one whose strings hold another
\* control character, such as a tab ("dc"), and text that is no JSON ("x").
Token == {"S", "E", "d1", "d2", "dn", "dc", "x"}

Texts == UNION {[1..n -> Token] : n \in 0..MaxLen}

\* str.find: the first position of the token, 0 standing for -1.
Find(text, tok) ==
    IF \E i \in DOMAIN text : text[i] = tok
    THEN CHOOSE i \in DOMAIN text :
            text[i] = tok /\ \A j \in 1..(i - 1) : text[j] # tok
    ELSE 0

MarkerMissing_ChecksEnd(text) == Find(text, "E") = 0

\* Lines 154, 157, 162: start_index == -1.
MarkerMissing(text) == Find(text, "S") = 0

Slice_IgnoresEnd(text) == SubSeq(text, Find(text, "S") + 1, Len(text))

Slice_AlwaysToEnd(text) ==
    SubSeq(text, Find(text, "S") + 1,
           IF Find(text, "E") = 0 THEN Len(text) - 1 ELSE Find(text, "E") - 1)

\* Lines 158-161: the text after the first begin marker, up to the first
\* end marker when there is one (empty when that one comes first).
Slice(text) ==
    IF Find(text, "E") = 0
    THEN SubSeq(text, Find(text, "S") + 1, Len(text))
    ELSE SubSeq(text, Find(text, "S") + 1, Find(text, "E") - 1)

\* json.loads accepts exactly one complete document ("de": a document whose
\* newlines are escaped).
Parses(r) == Len(r) = 1 /\ r[1] \in {"d1", "d2", "de"}

\* Line 174: cleaned_json_response.replace("\n", "\\n").
EscapeNewlines(r) == [i \in DOMAIN r |-> IF r[i] = "dn" THEN "de" ELSE r[i]]

Parse_AlsoStrips(text) ==
    LET r == Slice(text) IN
    IF Parses(r) THEN [ok |-> TRUE, value |-> r[1]]
    ELSE IF Parses(EscapeNewlines(r))
    THEN [ok |-> TRUE, value |-> EscapeNewlines(r)[1]]
    ELSE IF Len(r) = 1 /\ r[1] \in {"dn", "dc"}
    THEN [ok |-> TRUE, value |-> "ds"]
    ELSE [ok |-> FALSE, value |-> "none"]

\* Lines 165-177: the block is taken as it is (line 166), json.loads, and on
\* JSONDecodeError once more after the newlines were escaped.  The parsed
\* value is named by its document.
Parse(text) ==
    LET r == Slice(text) IN
    IF Parses(r) THEN [ok |-> TRUE, value |-> r[1]]
    ELSE IF Parses(EscapeNewlines(r))
    THEN [ok |-> TRUE, value |-> EscapeNewlines(r)[1]]
    ELSE [ok |-> FALSE, value |-> "none"]

\* One call of _clean_json_response(raw_response, retry_count, max_retries),
\* lines 154-189: up to its return, its raise or its process(__fix_json__)
\* call.  From line 189 on the frame reads raw_response only for logging.
CleanCall ==
    /\ cleanState = "call"
    /\ IF MarkerMissing(raw_response)
       THEN /\ cleanState' = "raising"
            /\ cleanError' = InvalidResponse
            /\ allMalformed' = FALSE
            /\ UNCHANGED <<raw_response, cleanValue, parseAttempts>>
       ELSE /\ parseAttempts' = parseAttempts + 1
            /\ IF Parse(raw_response).ok
               THEN /\ cleanState' = "returned"
                    /\ cleanValue' = Parse(raw_response).value
                    /\ allMalformed' = FALSE
                    /\ UNCHANGED <<raw_response, cleanError>>
               ELSE IF Exhausted(clean_retry_count, clean_max_retries)
               THEN /\ cleanState' = "raising"
                    /\ cleanError' = AfterAttempts(clean_max_retries + 1)
                    /\ UNCHANGED <<raw_response, cleanValue, allMalformed>>
               ELSE /\ cleanState' = "fixing"
                    /\ raw_response' = <<>>
                    /\ UNCHANGED <<cleanValue, cleanError, allMalformed>>
    /\ UNCHANGED <<clean_max_retries, clean_retry_count, fixCalls>>

\* Lines 189-193: process(__fix_json__) returned some text; the extractor
\* calls itself on it with retry_count + 1.
CleanFixReturns ==
    /\ cleanState = "fixing"
    /\ fixCalls' = fixCalls + 1
    /\ raw_response' \in Texts
    /\ clean_retry_count' = clean_retry_count + 1
    /\ cleanState' = "call"
    /\ UNCHANGED <<clean_max_retries, cleanValue, cleanError, parseAttempts,
                   allMalformed>>

\* Lines 189-197: process(__fix_json__) raised; the except block of the
\* frame raises "Invalid JSON response from processor".
CleanFixRaises ==
    /\ cleanState = "fixing"
    /\ fixCalls' = fixCalls + 1
    /\ cleanState' = "raising"
    /\ cleanError' = InvalidJson
    /\ allMalformed' = FALSE
    /\ UNCHANGED <<raw_response, clean_max_retries, clean_retry_count,
                   cleanValue, parseAttempts>>

\* Lines 193-197: the exception of a recursive call reaches the except
\* block of the calling frame, which raises "Invalid JSON response from
\* processor" in its place.
CleanPropagate ==
    /\ cleanState = "raising"
    /\ clean_retry_count > 0
    /\ clean_retry_count' = clean_retry_count - 1
    /\ cleanError' = InvalidJson
    /\ UNCHANGED <<raw_response, clean_max_retries, cleanState, cleanValue,
                   parseAttempts, fixCalls, allMalformed>>

\* A caller invokes _clean_json_response(raw, 0, max_retries) on any text.
CleanInit ==
    /\ max_concurrent_sessions = MaxCapacity
    /\ semValue = max_concurrent_sessions
    /\ semWaiters = <<>>
    /\ waiting_queue = <<>>
    /\ active_sessions = {}
    /\ start_time = [x \in {} |-> 0]
    /\ ready = <<>>
    /\ running = {}
    /\ pc = [t \in Task |-> "done"]
    /\ cur = [t \in Task |-> 0]
    /\ held = [t \in Task |-> {}]
    /\ InitObs
    /\ InitExt
    /\ at = [t \in Task |-> "idle"]
    /\ kind = [t \in Task |-> "request"]
    /\ v2retries = [t \in Task |-> 0]
    /\ retry_count = [t \in Task |-> 0]
    /\ outcome = [t \in Task |-> "none"]
    /\ result = [t \in Task |-> 0]
    /\ v2error = [t \in Task |-> NoError]
    /\ faults = 0
    /\ InitBatchIdle
    /\ InitSeqIdle
    /\ raw_response \in Texts
    /\ clean_max_retries \in 0..MaxCleanRetries
    /\ clean_retry_count = 0
    /\ cleanState = "call"
    /\ cleanValue = "none"
    /\ cleanError = NoError
    /\ parseAttempts = 0
    /\ fixCalls = 0
    /\ allMalformed = TRUE

CleanNext ==
    \/ CleanCall /\ UNCHANGED <<coreVars, nextId, obsVars, extVars, v2Vars, batchVars, seqVars>>
    \/ CleanFixReturns /\ UNCHANGED <<coreVars, nextId, obsVars, extVars, v2Vars, batchVars, seqVars>>
    \/ CleanFixRaises /\ UNCHANGED <<coreVars, nextId, obsVars, extVars, v2Vars, batchVars, seqVars>>
    \/ CleanPropagate /\ UNCHANGED <<coreVars, nextId, obsVars, extVars, v2Vars, batchVars, seqVars>>

CleanSpec == CleanInit /\ [][CleanNext]_vars

\* --------------------------------------------------------------- claims

\* The task is suspended inside acquire_session.
Pending(t) == pc[t] \in {"waitFut", "futReady", "waitSem", "semReady"}

\* C1: with distinct session ids and releases issued only for returned
\* acquires, active_sessions never holds more than max_concurrent_sessions
\* entries.
C1_ActiveWithinCapacity ==
    Cardinality(active_sessions) <= max_concurrent_sessions

\* C1 witness: the limiter is full while somebody waits in the queue and
\* somebody else, woken earlier, waits for the semaphore.
C1_Witness ==
    /\ Cardinality(active_sessions) = max_concurrent_sessions
    /\ waiting_queue # <<>>
    /\ semWaiters # <<>>

\* C2: FIFO among queued waiters: if A was appended to waiting_queue before
\* B, then A is recorded in active_sessions before B is.
C2_QueuedFifo ==
    \A a \in Range(queued), b \in Range(queued) :
        Before(queued, a, b) /\ a # b => (b \in Range(admitted) => Before(admitted, a, b))

\* C2 witness: two sessions that both went through the queue are admitted.
C2_Witness ==
    \E a \in Range(queued), b \in Range(queued) :
        /\ a # b
        /\ a \in Range(admitted)
        /\ b \in Range(admitted)

\* C3: no barging: a session whose acquire_session call started after a
\* waiter W was queued is never recorded active before W.
C3_NoBarging ==
    \A w \in Range(queued), x \in 1..MaxSessions :
        (w < x) => (x \in Range(admitted) => Before(admitted, w, x))

\* C6: no lost wake-up: if admitted sessions keep being released (the set
\* of active sessions is empty again and again), every suspended
\* acquire_session call returns with its session active.
C6_NoLostWakeup ==
    ([]<>(active_sessions = {})) =>
        \A t \in Task :
            Pending(t) ~> (cur[t] \in held[t] /\ cur[t] \in active_sessions)

\* C6 witness: a call that was queued has returned with its session active.
C6_Witness ==
    \E t \in Task :
        /\ cur[t] \in Range(queued)
        /\ cur[t] \in held[t]
        /\ cur[t] \in active_sessions

\* C4: the transport calls in flight through the handler never outnumber the
\* capacity of its rate limiter, however many requests are offered at once.
C4_InFlightWithinCapacity ==
    Cardinality({t \in Task : at[t] = "transport"}) <= max_concurrent_sessions

\* C4 witness: as many calls in flight as the limiter admits while another
\* request of the batch waits for a slot.
C4_Witness ==
    /\ Cardinality({t \in Task : at[t] = "transport"}) = max_concurrent_sessions
    /\ waiting_queue # <<>>

\* C5: when send_request has returned or raised, the id it acquired is not
\* in active_sessions, and once every request has ended active_sessions is
\* empty.
C5_ReleasedOnEveryExit ==
    /\ \A t \in Item : (at[t] \notin {"send", "acquire", "transport"}) => FreshId(t) \notin active_sessions
    /\ (\A t \in Item : at[t] \in {"ok", "failed"}) => active_sessions = {}

\* C5 witness: send_request has just propagated a transport error while
\* another request holds a slot.
C5_Witness ==
    \E t \in Item :
        /\ at[t] = "returned"
        /\ outcome[t] = "error"
        /\ active_sessions # {}

\* C7: on success parallel_batch_process returns one element per input, the
\* i-th being the result of the i-th input, whatever the completion order.
C7_ResultsInInputOrder ==
    batchState = "returned" =>
        /\ Len(batchResult) = NItems
        /\ \A i \in Item : batchResult[i] = result[i]

\* C7 witness: the batch returned although a later input completed before
\* an earlier one.
C7_Witness ==
    /\ batchState = "returned"
    /\ \E i \in Item, j \in Item : i < j /\ Before(doneOrder, j, i)

\* C8: all-or-nothing: once an item has exhausted its retries the batch call
\* raises (its wake-up is scheduled or it has raised) and it never returns
\* results.
C8_AllOrNothing ==
    /\ batchState = "returned" => \A t \in Item : at[t] = "ok"
    /\ (\E t \in Item : at[t] = "failed") =>
           /\ batchState = "raised" \/ Main \in Range(ready)
           /\ batchResult = <<>>

\* C8 witness: the batch has raised with one item failed and every other
\* item succeeded.
C8_Witness ==
    /\ batchState = "raised"
    /\ \E t \in Item :
           /\ at[t] = "failed"
           /\ \A u \in Item \ {t} : at[u] = "ok"

\* C9: the sequential chain is serialized in input order: process_v2 is
\* called for the chunks in index order, the call for a chunk is made only
\* after every earlier chunk's call has returned its result, and at most
\* one transport call of the chain is in flight.
C9_SequentialSerialized ==
    /\ startedIdx = [i \in 1..Len(startedIdx) |-> i]
    /\ Len(startedIdx) <= Len(results) + 1
    /\ Cardinality({t \in Task : at[t] = "transport"}) <= 1

\* C9 witness: the transport call of the second chunk is in flight.
C9_Witness ==
    /\ Len(startedIdx) = 2
    /\ {t \in Task : at[t] = "transport"} # {}

\* C10: every field of the carry map holds "n/a" in the first chunk's input
\* and, in a later chunk's input, the value of its source key in the result
\* of the chunk just before, whenever that result holds the key.
C10_SequentialCarry ==
    \A i \in DOMAIN sent : \A f \in DOMAIN sequential_config :
        /\ i = 1 => sent[i][f] = "n/a"
        /\ i > 1 /\ Has(results[i - 1], sequential_config[f]) =>
               sent[i][f] = results[i - 1].items[sequential_config[f]]

\* C10 witness: the third chunk was sent with a field carried from the
\* second chunk's result, the first chunk's result holding the key too.
C10_Witness ==
    /\ Len(sent) >= 3
    /\ \E f \in DOMAIN sequential_config :
           /\ Has(results[1], sequential_config[f])
           /\ Has(results[2], sequential_config[f])

\* C11: a failure of a chunk aborts the sequential chain: once process_v2
\* has raised for chunk i the generator only re-raises to its consumer, no
\* further chunk is handed to the pipeline, and the generator has called
\* process_v2 exactly once for the failed chunk.
C11_FailureAbortsChain ==
    [][at[1] \in {"v2_raised", "seq_raised"} =>
          /\ at'[1] = "seq_raised"
          /\ startedIdx' = startedIdx
          /\ sent' = sent
          /\ Cardinality({j \in DOMAIN startedIdx : startedIdx[j] = chunkIdx}) = 1]_vars

\* C11 witness: the second chunk's pipeline failed and the error reached
\* the consumer while a third chunk was still to come.
C11_Witness ==
    /\ at[1] = "seq_raised"
    /\ chunkIdx = 2
    /\ Len(startedIdx) = 2
    /\ Len(results) = 1
    /\ chunkIdx < NChunks

\* C12: with max_retries = 3 and texts that all hold the begin marker and
\* fail to parse, the extractor never returns, never makes more than 4 parse
\* attempts or 3 process(__fix_json__) calls, and when it raises it has made
\* exactly 4 parse attempts and 3 repair calls.
C12_FourAttempts ==
    (clean_max_retries = 3 /\ allMalformed) =>
        /\ parseAttempts <= 4
        /\ fixCalls <= 3
        /\ cleanState # "returned"
        /\ cleanState = "raising" => parseAttempts = 4 /\ fixCalls = 3

\* C12 witness: the terminal failure after the fourth malformed text.
C12_Witness ==
    /\ clean_max_retries = 3
    /\ allMalformed
    /\ cleanState = "raising"
    /\ parseAttempts = 4
    /\ fixCalls = 3

\* C14: when every repair gave malformed text, the error the top-level call
\* raises to its caller is the one that names max_retries + 1 attempts.
C14_TerminalErrorNamesAttempts ==
    (allMalformed /\ cleanState = "raising" /\ clean_retry_count = 0) =>
        cleanError = AfterAttempts(clean_max_retries + 1)

\* C15: a call on a text without the begin marker raises the
\* invalid-response error, with no parse attempt and no repair call.
C15_MissingMarkerFails ==
    [][(cleanState = "call" /\ "S" \notin Range(raw_response)) =>
          /\ cleanState' = "raising"
          /\ cleanError' = InvalidResponse
          /\ parseAttempts' = parseAttempts
          /\ fixCalls' = fixCalls]_vars

\* C15 witness: the caller's text holds a JSON document and an end marker
\* but no begin marker, and the call has raised to it.
C15_Witness ==
    /\ cleanState = "raising"
    /\ clean_retry_count = 0
    /\ fixCalls = 0
    /\ parseAttempts = 0
    /\ cleanError = InvalidResponse
    /\ {"d1", "E"} \subseteq Range(raw_response)

\* The text holds one JSON document between its begin marker and its end
\* marker (the first of each).
BlockAt(text) == Find(text, "S") + 1

C19_TruncatedAccepted ==
    [][(/\ cleanState = "call"
        /\ Find(raw_response, "S") # 0
        /\ "E" \notin Range(raw_response)) =>
          LET rest == SubSeq(raw_response, BlockAt(raw_response), Len(raw_response))
          IN /\ (Len(rest) = 1 /\ rest[1] \in {"d1", "d2"}) =>
                   /\ cleanState' = "returned"
                   /\ cleanValue' = rest[1]
                   /\ fixCalls' = fixCalls
             /\ Len(rest) # 1 => cleanState' # "returned"]_vars

\* C19 witness: a text that ends right after the document, with no end
\* marker, was accepted without repair.
C19_Witness ==
    /\ cleanState = "returned"
    /\ fixCalls = 0
    /\ "E" \notin Range(raw_response)
    /\ Find(raw_response, "S") = 2
    /\ Len(raw_response) = 3

\* C13: with the default bound, the extraction that gives up on a malformed
\* text has made exactly 3 process(__fix_json__) calls.
C13_DefaultThreeRepairs ==
    [][\A t \in Task :
          (/\ (at[t] = "returned" /\ at'[t] # "returned")
           /\ outcome[t] = "malformed"
           /\ ~(kind'[t] = "fix" /\ retry_count'[t] = retry_count[t] + 1)) =>
              retry_count[t] = 3]_vars

\* C16: in process_v2 a response without the begin marker ends the call at
\* once: no further request is sent.
C16_MissingMarkerFatal ==
    [][\A t \in Task :
          ((at[t] = "returned" /\ at'[t] # "returned") /\ outcome[t] = "nomarker") => at'[t] = "v2_raised"]_vars

\* C17: process_v2 returns only the value under process_type of a mapping
\* that holds it; on any other parsed value the attempt fails, the request
\* is sent again, and the third failed attempt makes process_v2 raise,
\* naming the missing-main-key error.
C17_MissingKeyRetried ==
    [][\A t \in Task :
          (at[t] = "returned" /\ at'[t] # "returned") =>
              /\ at'[t] = "v2_returned" =>
                     outcome[t] = "ok" /\ result'[t] = Answer(t)
              /\ outcome[t] \in {"nokey", "nonmap"} =>
                     /\ v2retries'[t] = v2retries[t] + 1
                     /\ IF v2retries'[t] < 3
                        THEN at'[t] = "send" /\ kind'[t] = "request"
                        ELSE at'[t] = "v2_raised" /\ v2error'[t] = ([kind |-> "missing_main_key", attempts |-> 0])]_vars

\* C20: at capacity, acquire_session of a fresh id queues its caller and
\* suspends it, and the caller leaves that suspension only in a step that
\* releases a session; a release of an active id, in the same step, takes
\* the oldest waiter off the queue and schedules it; and, when sessions keep
\* being released, the waiter so resolved becomes active.
C20_SuspendsUntilRelease ==
    /\ [][\A t \in Task :
             /\ ((nextId' = nextId + 1 /\ cur'[t] = nextId) /\ Cardinality(active_sessions) >= max_concurrent_sessions) =>
                    /\ pc'[t] = "waitFut"
                    /\ waiting_queue' = Append(waiting_queue, <<nextId, t>>)
                    /\ nextId \notin active_sessions'
             /\ (pc[t] = "waitFut" /\ pc'[t] # "waitFut") =>
                    /\ (\E s \in active_sessions : s \notin active_sessions')
                    /\ waiting_queue # <<>> /\ Head(waiting_queue)[2] = t
             /\ ((\E s \in active_sessions : s \notin active_sessions') /\ waiting_queue # <<>> /\ Head(waiting_queue)[2] = t) =>
                    /\ waiting_queue' = Tail(waiting_queue)
                    /\ pc'[t] = "futReady"
                    /\ t \in Range(ready')]_vars
    /\ ([]<>(active_sessions = {})) =>
           \A t \in Task : pc[t] = "futReady" ~> cur[t] \in active_sessions

\* C20 witness: capacity 1, s1 was admitted at once, s2 was queued, and
\* after the release of s1 it is s2 that is active.
C20_Witness ==
    /\ max_concurrent_sessions = 1
    /\ admitted = <<1, 2>>
    /\ queued = <<2>>
    /\ active_sessions = {2}

\* C21: a call of acquire_session with an id that is in active_sessions
\* returns to its caller in the same step and leaves the admission state as
\* it was: no permit is taken, no ticket is queued, nobody is woken, and the
\* entry of the id keeps its start_time.
C21_DuplicateAcquireIsNoop ==
    [][\A t \in Task : \A s \in active_sessions :
          AcquireSession(t, s) =>
              /\ semValue' = semValue /\ semWaiters' = semWaiters
              /\ waiting_queue' = waiting_queue
              /\ active_sessions' = active_sessions
              /\ start_time' = start_time
              /\ ready' = ready
              /\ running' = {t} /\ pc'[t] = "run"]_vars

\* C21 witness: acquire_session was called with an id that was active, the
\* id is still active, and its entry is older than the clock.
C21_Witness ==
    \E s \in active_sessions :
        /\ lastCall = <<"acquire", s, TRUE>>
        /\ start_time[s] < now

\* C22: a call of release_session with an id that is not in active_sessions
\* changes nothing in the limiter (active_sessions, the waiting queue, the
\* semaphore's permits and waiters), wakes nobody, and returns to its caller.
C22_UnknownReleaseIsNoop ==
    [][\A t \in Task : \A s \in held[t] \ active_sessions :
          ReleaseSession(t, s) =>
              /\ active_sessions' = active_sessions
              /\ start_time' = start_time
              /\ waiting_queue' = waiting_queue
              /\ semValue' = semValue /\ semWaiters' = semWaiters
              /\ ready' = ready
              /\ \A u \in Task : pc'[u] = pc[u]
              /\ running' = {t}]_vars

\* C22 witness: release_session was called with an id that was not active
\* while a ticket was queued, and the ticket is still queued.
C22_Witness ==
    /\ \E s \in 1..MaxSessions : lastCall = <<"release", s, FALSE>>
    /\ waiting_queue # <<>>
    /\ Len(queued) = 1

\* C23: what get_queue_status returns is the limiter at the instant of the
\* call: the active count is the number of active ids listed, which are the
\* keys of active_sessions, and is at most max_concurrent_sessions; the
\* waiting count is the number of waiting ids listed, which are the ids of
\* the tickets queued.  After k <= max_concurrent_sessions acquires of
\* distinct ids on a new limiter it reports k active and 0 waiting, and
\* after the release of all of them 0 active.
C23_StatusSnapshot ==
    [][status' # status =>
          LET st == status'
              k == nextId - 1
          IN
          /\ st.active_sessions = Cardinality(st.active_session_ids)
          /\ st.active_sessions <= st.max_concurrent_sessions
          /\ st.waiting_sessions = Len(st.waiting_session_ids)
          /\ st.active_session_ids = active_sessions
          /\ st.waiting_session_ids = [i \in DOMAIN waiting_queue |-> waiting_queue[i][1]]
          /\ st.max_concurrent_sessions = max_concurrent_sessions
          /\ (k <= max_concurrent_sessions /\ (Len(admitted) = Cardinality(active_sessions))) =>
                 st.active_sessions = k /\ st.waiting_sessions = 0
          /\ (k <= max_concurrent_sessions /\ Len(admitted) = k /\ active_sessions = {}) =>
                 st.active_sessions = 0]_vars

\* C23 witness: two ids were acquired on a new limiter of capacity 2, none
\* was released, and the status says 2 active and 0 waiting.
C23_Witness ==
    /\ max_concurrent_sessions = 2
    /\ nextId = 3
    /\ (Len(admitted) = Cardinality(active_sessions))
    /\ status.active_sessions = 2 /\ status.waiting_sessions = 0
    /\ status.active_session_ids = {1, 2}

\* C24: every handler's send_request acquires and releases on the limiter
\* of that handler instance, so the requests in flight through a handler
\* constructed with max_concurrent_sessions = c are recorded in its own
\* limiter and are never more than c, whatever goes through other handlers.
C24_PerHandlerAdmission ==
    \A h \in Handler :
        /\ ({r \in Req : reqHandler[r] = h /\ reqAt[r] = "transport"}) \subseteq limiterActive[h]
        /\ Cardinality(({r \in Req : reqHandler[r] = h /\ reqAt[r] = "transport"})) <= capacity[h]

\* C25: once a ProcessorCore has been constructed, and after every call of
\* add_llm_handler, remove_llm_handler and set_default_handler, whether it
\* returned or raised, llm_handlers has the key "default".
C25_DefaultAlwaysRegistered ==
    coreState = "ready" => "default" \in DOMAIN llm_handlers

\* C25 witness: handlers were added under other names and a removal of
\* "default" has just been refused.
C25_Witness ==
    /\ coreState = "ready"
    /\ regOut.op = "remove_llm_handler" /\ regOut.name = "default"
    /\ DOMAIN llm_handlers = HandlerName

\* C26: remove_llm_handler("default") raises and leaves llm_handlers as it
\* was; for another name it deletes that entry alone and returns True when
\* the name is registered, and returns False, llm_handlers unchanged, when
\* it is not.
C26_RemoveContract ==
    [][\A name \in HandlerName :
          RemoveLlmHandler(name) =>
              IF name = "default"
              THEN regOut'.error = "ValueError" /\ llm_handlers' = llm_handlers
              ELSE IF name \in DOMAIN llm_handlers
              THEN /\ regOut'.ret = "True" /\ regOut'.error = "none"
                   /\ DOMAIN llm_handlers' = DOMAIN llm_handlers \ {name}
                   /\ \A x \in DOMAIN llm_handlers' : llm_handlers'[x] = llm_handlers[x]
              ELSE /\ regOut'.ret = "False" /\ regOut'.error = "none"
                   /\ llm_handlers' = llm_handlers]_vars

\* C26 witness: "a" has just been removed, with True returned, from a
\* registry that also held "b".
C26_Witness ==
    /\ regOut.op = "remove_llm_handler" /\ regOut.name = "a" /\ regOut.ret = "True"
    /\ DOMAIN llm_handlers = {"default", "b"}

\* C27, as claimed: every lookup of a name that is not registered, by
\* process, process_v2 or get_llm_handler, raises an error that lists the
\* registered names, and no transport call is made.
C27_UnknownLookupFails ==
    (regOut.op \in ({"process", "process_v2", "get_llm_handler"}) /\ regOut.name \notin DOMAIN llm_handlers) =>
        /\ regOut.error # "none"
        /\ regOut.names = DOMAIN llm_handlers
        /\ regOut.sends = 0

\* C27, amended: process and process_v2 called with a handler name that is
\* not registered raise an error whose message lists the registered names,
\* and make no transport call; get_llm_handler of such a name raises
\* nothing and returns None.
C27_UnknownLookup ==
    /\ (regOut.op \in ({"process", "process_v2"}) /\ regOut.name \notin DOMAIN llm_handlers) =>
           /\ regOut.error \in {"ValueError", "Exception"}
           /\ regOut.names = DOMAIN llm_handlers
           /\ regOut.sends = 0
    /\ (regOut.op \in ({"get_llm_handler"}) /\ regOut.name \notin DOMAIN llm_handlers) =>
           /\ regOut.error = "none"
           /\ regOut.ret = "None"
           /\ regOut.sends = 0

\* C27 witness: process_v2 has just been called with handler "b" on a
\* registry that holds "default" and "a".
C27_Witness ==
    /\ regOut.op = "process_v2" /\ regOut.name = "b"
    /\ DOMAIN llm_handlers = {"default", "a"}
    /\ regOut.names = {"default", "a"}

\* C28: every object registered in llm_handlers, by the constructor or by
\* add_llm_handler, is a BaseLLMHandler.
C28_OnlyHandlersRegistered ==
    coreState = "ready" =>
        \A name \in DOMAIN llm_handlers : IsBaseLLMHandler(llm_handlers[name])

\* C29: a call of process makes one transport call: from its entry it goes
\* to acquire_session, to the transport call, and back to its caller, with
\* no second send of its own; when the transport call raised, the session
\* has been released by the time process raises, and the exception its
\* caller gets is the transport's: process_v2 counts one failed attempt and,
\* on its last attempt, names that exception.
C29_ProcessPassesThrough ==
    [][\A t \in Item :
          /\ (at[t] = "send" /\ at'[t] # "send") => at'[t] = "acquire"
          /\ (at[t] = "acquire" /\ at'[t] # "acquire") => at'[t] = "transport"
          /\ (at[t] = "transport" /\ at'[t] # "transport") =>
                 /\ at'[t] = "returned"
                 /\ cur[t] \notin active_sessions' /\ cur[t] \notin held'[t]
          /\ (at[t] = "returned" /\ at'[t] # "returned" /\ outcome[t] = "error"
                /\ kind[t] = "request") =>
                 /\ cur[t] \notin active_sessions
                 /\ v2retries'[t] = v2retries[t] + 1
                 /\ at'[t] \in {"send", "v2_raised"}
                 /\ at'[t] = "v2_raised" => v2error'[t] = TransportError]_vars

\* C29 witness: the transport call of a request raised, three times, and
\* process_v2 has raised naming the transport's error, with no session left.
C29_Witness ==
    \E t \in Item :
        /\ at[t] = "v2_raised"
        /\ v2error[t] = TransportError
        /\ held[t] = {}

\* C30: the generator is driven by its consumer: process_v2 has been called
\* for no more chunks than the consumer has asked elements for, the consumer
\* asks for the next element only after it got the previous one, the i-th
\* value yielded is the result of chunk i, and when the generator ends
\* normally the values collected are the results of all the chunks, in
\* chunk order.
C30_LazyInOrder ==
    /\ Len(startedIdx) <= requested
    /\ requested <= Len(results) + 1
    /\ Len(results) <= Len(startedIdx)
    /\ \A i \in DOMAIN startedIdx : startedIdx[i] = i
    /\ \A i \in DOMAIN results : results[i] \in ResultsFor(i)
    /\ at[1] = "seq_done" => Len(results) = NChunks

\* C30 witness: the second result has been yielded, the consumer has not
\* asked for the third element, and no third chunk has been started.
C30_Witness ==
    /\ at[1] = "seq_yielded"
    /\ Len(results) = 2 /\ requested = 2
    /\ startedIdx = <<1, 2>>
    /\ NChunks > 2

\* C31: when every acquire_session call has returned and has been followed
\* by one release of its id, also where a call was made with an id that was
\* waiting, no session is active and every permit of the semaphore is free.
C31_PermitConservation ==
    (\A t \in Task : pc[t] \in {"run", "io", "ready", "done"} /\ held[t] = {}) =>
        /\ active_sessions = {}
        /\ semValue = max_concurrent_sessions

\* C32: a request pipeline holds at most the slot of its one send in
\* progress, and none when it calls acquire_session, while it waits inside
\* it, and while it extracts: the slot of a send is released before the
\* response is examined, so a self-repair send acquires with nothing held;
\* and with capacity 1 a request that has started a self-repair goes on to
\* return or raise.
C32_NoHoldAndWait ==
    /\ [](\A t \in Item :
            /\ Cardinality(held[t]) <= 1
            /\ (at[t] \in {"send", "returned"} \/ Pending(t)) => held[t] = {}
            /\ at[t] = "returned" => cur[t] \notin active_sessions)
    /\ \A t \in Item :
          (max_concurrent_sessions = 1 /\ kind[t] = "fix" /\ at[t] = "send")
              ~> (at[t] \in {"v2_returned", "v2_raised"})

\* C32 witness: under capacity 1 a request whose first response needed
\* self-repair has returned a value, while another request, woken by its
\* last release, is still inside acquire_session.
C32_Witness ==
    /\ max_concurrent_sessions = 1
    /\ \E t \in Item :
          /\ at[t] = "v2_returned"
          /\ retry_count[t] > 0
          /\ held[t] = {}
    /\ \E u \in Item : Pending(u)

\* C33: a process_v2 call makes at most 3 attempts, each of one request send
\* and at most 2 self-repair sends, so it starts at most 9 transport calls,
\* whatever the transport answers; and when every transport call returns or
\* raises, the call returns or raises.
C33_V2Terminates ==
    /\ [](\A t \in Item :
            /\ v2retries[t] <= 3
            /\ retry_count[t] <= 2
            /\ sendCount[t] <= 9
            /\ at[t] \in {"send", "acquire", "transport", "returned"} => v2retries[t] < 3)
    /\ \A t \in Item :
          (at[t] = "send") ~> (at[t] \in {"v2_returned", "v2_raised"})

\* C33 witness: a process_v2 call has raised after 9 transport calls: three
\* attempts whose request and two repairs all came back malformed.
C33_Witness ==
    \E t \in Item :
        /\ at[t] = "v2_raised"
        /\ sendCount[t] = 9
        /\ v2retries[t] = 3

\* C34: once parallel_batch_process has raised because an item exhausted
\* its retries, no item of the batch starts another transport call.
C34_AbortStopsItems ==
    [][batchState = "raised" =>
          \A t \in Item : at'[t] = "transport" => at[t] = "transport"]_vars

\* C35: a batch item calls process_v2 at most max_retries times; after its
\* k-th failed call, k < max_retries, it sleeps 2^k seconds before the next
\* call, and after the failure that exhausts its retries it raises without
\* sleeping; the counters of one item are moved by that item's steps only.
C35_ItemRetriesAndBackoff ==
    /\ [](\A t \in Item :
            /\ invocations[t] <= max_retries
            /\ invocations[t] \in {retries[t], retries[t] + 1}
            /\ delays[t] = [k \in 1..Len(delays[t]) |-> 2 ^ k]
            /\ Len(delays[t]) = IF at[t] = "failed" THEN retries[t] - 1 ELSE retries[t]
            /\ at[t] = "failed" => invocations[t] = max_retries)
    /\ [][\A t, u \in Item :
            (t # u /\ <<retries[t], invocations[t], delays[t]>>'
                        # <<retries[t], invocations[t], delays[t]>>) =>
                <<retries[u], invocations[u], delays[u]>>'
                    = <<retries[u], invocations[u], delays[u]>>]_vars

\* C35 witness: with max_retries = 2 an item has failed for good after two
\* calls of process_v2 and one sleep of 2 seconds, while another item is in
\* its first call with no failure counted.
C35_Witness ==
    /\ max_retries = 2
    /\ \E t, u \in Item :
          /\ at[t] = "failed" /\ invocations[t] = 2 /\ delays[t] = <<2>>
          /\ invocations[u] = 1 /\ retries[u] = 0 /\ delays[u] = <<>>
          /\ at[u] \notin {"ok", "failed"}

\* C36: in every constructed ProcessorCore, after any calls of
\* add_llm_handler, remove_llm_handler and set_default_handler, the
\* attribute llm_handler is the handler registered as "default".
C36_CompatAttributeInSync ==
    coreState = "ready" =>
        /\ "default" \in DOMAIN llm_handlers
        /\ llm_handler = llm_handlers["default"]

\* C37: a ProcessorCore call with a non-empty llm_handlers of handlers (and
\* no llm_handler, or a handler) returns a core in which every supplied name
\* is registered with the handler supplied under it, and whose llm_handler
\* is the explicit llm_handler, else the entry named "default", else the
\* single entry.
C37_ConstructWithHandlers ==
    LET h == ctorArgs.llm_handler
        hs == ctorArgs.llm_handlers
    IN  (/\ regOut.op = "__init__"
         /\ regOut.error # "CreateError"
         /\ DOMAIN hs # {}
         /\ \A n \in DOMAIN hs : IsBaseLLMHandler(hs[n])
         /\ h = "None" \/ IsBaseLLMHandler(h)) =>
            /\ coreState = "ready"
            /\ \A n \in DOMAIN hs : n \in DOMAIN llm_handlers /\ llm_handlers[n] = hs[n]
            /\ FoundDefault(h, hs) # "None" => llm_handler = FoundDefault(h, hs)

\* C38: every __fix_json__ send goes through the handler registered as
\* "default", also when the request named another handler, whose own sends
\* go through the one it named; and the repair counter of a request is
\* moved by that request's steps only.
C38_RepairViaDefault ==
    /\ [](\A t \in Item :
            (at[t] \in {"acquire", "transport"}) =>
                via[t] = IF kind[t] = "fix" THEN "default"
                         ELSE IF handlerArg[t] = "None" THEN "default"
                         ELSE handlerArg[t])
    /\ [][\A t, u \in Item :
            (t # u /\ retry_count'[t] # retry_count[t]) =>
                retry_count'[u] = retry_count[u]]_vars

\* C38 witness: a request that named handler "a" has its second repair in
\* flight through "default", while another request is at its first repair.
C38_Witness ==
    \E t, u \in Item :
        /\ handlerArg[t] = "a"
        /\ kind[t] = "fix" /\ at[t] = "transport" /\ via[t] = "default"
        /\ retry_count[t] = 2
        /\ kind[u] = "fix" /\ retry_count[u] = 1

\* C39: the extractor returns the value of the block as it stands when that
\* parses, else the value of the block with its newlines escaped when that
\* parses, and nothing else: control characters are never stripped, so a
\* block with another control character yields no value; and it turns to
\* self-repair only from a text whose block fails both parses.
C39_OneSanitization ==
    /\ [](cleanState = "returned" =>
            \/ (Len(Slice(raw_response)) = 1 /\ Slice(raw_response)[1] \in {"d1", "d2"}) /\ cleanValue = Slice(raw_response)[1]
            \/ (Slice(raw_response) = <<"dn">>) /\ cleanValue = "de")
    /\ [][(cleanState = "call" /\ cleanState' = "fixing") =>
            /\ ~MarkerMissing(raw_response)
            /\ ~(Len(Slice(raw_response)) = 1 /\ Slice(raw_response)[1] \in {"d1", "d2"})
            /\ ~(Slice(raw_response) = <<"dn">>)]_vars

\* C39 witness: a text whose block failed both parses was sent to repair,
\* and the repaired text, a document with raw newlines, was parsed after
\* its newlines were escaped.
C39_Witness ==
    /\ cleanState = "returned"
    /\ fixCalls = 1
    /\ (Slice(raw_response) = <<"dn">>)
    /\ cleanValue = "de"

\* C40: a task that waits on its queued future has exactly one ticket in the
\* queue and a task whose future was resolved has none; a ticket leaves the
\* queue only as its head, one per step, in a step that removes an active
\* id (release_session), which resolves that ticket's future: its task, and
\* only its task, becomes ready to resume, once.
C40_TicketResolvedOnce ==
    /\ [](\A t \in Task :
            /\ pc[t] = "waitFut" => Cardinality(({i \in DOMAIN waiting_queue : waiting_queue[i][2] = t})) = 1
            /\ pc[t] # "waitFut" => ({i \in DOMAIN waiting_queue : waiting_queue[i][2] = t}) = {}
            /\ pc[t] = "futReady" => Cardinality({i \in DOMAIN ready : ready[i] = t}) = 1)
    /\ [][/\ \/ waiting_queue' = waiting_queue
             \/ \E x \in (1..MaxSessions) \X Task : waiting_queue' = Append(waiting_queue, x)
             \/ /\ waiting_queue # <<>>
                /\ waiting_queue' = Tail(waiting_queue)
                /\ \E s \in active_sessions : active_sessions' = active_sessions \ {s}
                /\ pc[Head(waiting_queue)[2]] = "waitFut"
                /\ pc'[Head(waiting_queue)[2]] = "futReady"
          /\ \A t \in Task :
                (pc'[t] = "futReady" /\ pc[t] # "futReady") =>
                    /\ waiting_queue # <<>>
                    /\ Head(waiting_queue)[2] = t
                    /\ waiting_queue' = Tail(waiting_queue)]_vars

\* C40 witness: a release has resolved the ticket at the head of the queue,
\* whose task is ready to resume, and the ticket behind it is still queued.
C40_Witness ==
    /\ waiting_queue # <<>>
    /\ \E t \in Task :
          /\ pc[t] = "futReady"
          /\ Before(queued, cur[t], Head(waiting_queue)[1])

====
